---- MODULE Spec2Model ----
(***************************************************************************)
(* Model of the TT-Reports upload pipeline: ingestion of uploaded daily    *)
(* report files, reconciliation of the incoming batch against the rows     *)
(* already held by the Google Sheet, and the write back to the sheet.      *)
(*                                                                         *)
(* The repository holds the upload code twice: inline in                   *)
(* app.py:run_main_app and refactored in                                   *)
(* components/file_uploader.py:upload_data_to_sheets.  Both are modelled.  *)
(***************************************************************************)
EXTENDS Integers, Sequences, FiniteSets, TLC

(***************************************************************************)
(* Bounds of the model.                                                    *)
(***************************************************************************)
MaxExisting == 2

MaxIncoming == 2

(***************************************************************************)
(* Values.  A string cell is a sequence of one-character strings, so that  *)
(* str.strip and the leading marker are computed, not assumed.             *)
(***************************************************************************)
\* a missing cell of a column the frame does not carry (pandas NaN)
NaN == <<"NaN">>

\* a missing date (pandas NaT)
NaT == 0

\* numeric cells: a number, or a missing number
Num(n) == [null |-> FALSE, v |-> n]

NullNum == [null |-> TRUE, v |-> 0]

\* Series.fillna(0)
Fillna0(c) == IF c.null THEN Num(0) ELSE c

\* astype(str) of a missing cell
NanStr == <<"n", "a", "n">>

\* report dates, as day numbers of one month
Dates == {1, 2}

\* campaign ids as they appear in an uploaded workbook
RawIds == { <<"A">>, <<"B">> }

\* f"'{x}": the marker put in front of every uploaded campaign_id
AddMarker(x) == <<"'">> \o x

\* campaign_id cells as the sheet can hold them: written by an earlier upload
\* (marker in front), one of them with trailing white space
SheetIds == { AddMarker(x) : x \in RawIds } \cup { <<"'", "A", " ">> }

RECURSIVE LStrip(_)
LStrip(s) == IF s # <<>> /\ Head(s) = " " THEN LStrip(Tail(s)) ELSE s

RECURSIVE RStrip(_)
RStrip(s) == IF s # <<>> /\ s[Len(s)] = " " THEN RStrip(SubSeq(s, 1, Len(s) - 1)) ELSE s

\* str.strip()
StrStrip(s) == LStrip(RStrip(s))

\* .astype(str) of a campaign_id cell
AsTypeStr(v) == IF v = NaN THEN NanStr ELSE v

\* the 'YYYY-MM-DD' string of day d
DateCell(d) == <<"2024", "01", d>>

\* a plausible slip: the day is formatted one off
StrftimeOffByOne(d) == IF d = NaT THEN NaN ELSE DateCell(d + 1)

\* dt.strftime('%Y-%m-%d'): the date cell written to the sheet
Strftime(d) == IF d = NaT THEN NaN ELSE DateCell(d)

\* an empty cell of the sheet, as get_all_records returns it
BlankCell == <<>>

\* pd.to_datetime of a sheet cell: a 'YYYY-MM-DD' string is parsed; an empty
\* string, 'nan' and a missing cell give NaT
ToDatetime(c) == IF Len(c) = 3 /\ c[1] = "2024" THEN c[3] ELSE NaT

(***************************************************************************)
(* Data frames: the set of column names and the rows in order.  Every row  *)
(* has every field; the field of a column the frame lacks is NaN / NaT.    *)
(***************************************************************************)
EmptyFrame == [columns |-> {}, rows |-> <<>>]

\* DataFrame.empty: no rows or no columns
IsEmpty(df) == df.rows = <<>> \/ df.columns = {}

Key(r) == <<r.campaign_id, r.report_date>>

KeysOf(rows) == { Key(rows[i]) : i \in 1..Len(rows) }

RECURSIVE Repeat(_, _)
Repeat(r, n) == IF n = 0 THEN <<>> ELSE <<r>> \o Repeat(r, n - 1)

Matches(r, right) == Cardinality({ j \in 1..Len(right) : Key(right[j]) = Key(r) })

\* pd.merge(left, right[['campaign_id','report_date']], on=[...], how='inner'):
\* one output row per (left row, matching right row), in left order
RECURSIVE MergeInner(_, _)
MergeInner(left, right) ==
    IF left = <<>> THEN <<>>
    ELSE Repeat(Head(left), Matches(Head(left), right)) \o MergeInner(Tail(left), right)

\* left.merge(right[keys], how='left', indicator=True)
\*     .query('_merge == "left_only"').drop(columns=['_merge'])
MergeLeftOnly(left, right) ==
    LET keep(r) == Matches(r, right) = 0 IN SelectSeq(left, keep)

\* a plausible slip: the negation of isin is lost
IsInDate(left, right) ==
    LET keep(r) == r.report_date \in { right[j].report_date : j \in 1..Len(right) }
    IN SelectSeq(left, keep)

\* df[~df['report_date'].isin(other['report_date'])]
NotIsInDate(left, right) ==
    LET keep(r) == r.report_date \notin { right[j].report_date : j \in 1..Len(right) }
    IN SelectSeq(left, keep)

\* pd.concat([a, b], ignore_index=True)
Concat(a, b) == [columns |-> a.columns \cup b.columns, rows |-> a.rows \o b.rows]

(***************************************************************************)
(* Account classification (utils/helpers.py, repeated in app.py).          *)
(***************************************************************************)
UpperLetters ==
    <<"A", "B", "C", "D", "E", "F", "G", "H", "I", "J", "K", "L", "M",
      "N", "O", "P", "Q", "R", "S", "T", "U", "V", "W", "X", "Y", "Z">>

LowerLetters ==
    <<"a", "b", "c", "d", "e", "f", "g", "h", "i", "j", "k", "l", "m",
      "n", "o", "p", "q", "r", "s", "t", "u", "v", "w", "x", "y", "z">>

\* lower case of each upper-case letter
LowerOf ==
    [c \in { UpperLetters[i] : i \in 1..Len(UpperLetters) } |->
        LowerLetters[CHOOSE i \in 1..Len(UpperLetters) : UpperLetters[i] = c]]

LowerChar(c) == IF c \in DOMAIN LowerOf THEN LowerOf[c] ELSE c

\* str.lower()
StrLower(name) == [i \in 1..Len(name) |-> LowerChar(name[i])]

\* pat in text
Contains(text, pat) ==
    \E i \in 1..Len(text) :
        /\ i + Len(pat) - 1 <= Len(text)
        /\ SubSeq(text, i, i + Len(pat) - 1) = pat

\* "granitestone"
GranitestonePattern == <<"g", "r", "a", "n", "i", "t", "e", "s", "t", "o", "n", "e">>

\* "bell and howell"
BellAndHowellPattern ==
    <<"b", "e", "l", "l", " ", "a", "n", "d", " ", "h", "o", "w", "e", "l", "l">>

\* a plausible slip: the two rules in the other order
extract_accountBellFirst(name) ==
    IF name = NaN THEN "Other Accounts"
    ELSE LET campaign_name_lower == StrLower(name)
         IN IF Contains(campaign_name_lower, BellAndHowellPattern) THEN "Bell+Howell"
            ELSE IF Contains(campaign_name_lower, GranitestonePattern) THEN "Granitestone"
            ELSE "Other Accounts"

extract_account(name) ==
    IF name = NaN THEN "Other Accounts"
    ELSE LET campaign_name_lower == StrLower(name)
         IN IF Contains(campaign_name_lower, GranitestonePattern) THEN "Granitestone"
            ELSE IF Contains(campaign_name_lower, BellAndHowellPattern) THEN "Bell+Howell"
            ELSE "Other Accounts"

\* the campaign name that goes with a campaign id in the modelled workbooks:
\* "GraniteStone" for A, "Bell and Howell" for B
CampaignNameOf(id) ==
    IF id = <<"A">>
    THEN <<"G", "r", "a", "n", "i", "t", "e", "S", "t", "o", "n", "e">>
    ELSE <<"B", "e", "l", "l", " ", "a", "n", "d", " ", "H", "o", "w", "e", "l", "l">>

(***************************************************************************)
(* upload_data_to_sheets up to the point where final_df is known.          *)
(*   impl     "component" (components/file_uploader.py) or "app" (app.py)  *)
(*   sheet_df pd.DataFrame(sh.get_all_records())                           *)
(*   batch    pd.concat(all_data, ignore_index=True)                       *)
(*   choice   the value st.radio returns when it is rendered               *)
(***************************************************************************)
RadioOptions == {"Skip duplicates", "Overwrite duplicates"}

\* combined_df['account_name'] = combined_df['campaign_name'].apply(extract_account)
WithAccountName(batch) ==
    [columns |-> batch.columns \cup {"account_name"},
     rows |-> [i \in 1..Len(batch.rows) |->
                 [batch.rows[i] EXCEPT !.account_name =
                     IF "campaign_name" \in batch.columns
                     THEN extract_account(batch.rows[i].campaign_name)
                     ELSE "Other Accounts"]]]

\* existing['report_date'] = pd.to_datetime(existing['report_date'])
WithDatetime(df) ==
    [df EXCEPT !.rows = [i \in 1..Len(df.rows) |->
                           [df.rows[i] EXCEPT !.report_date = ToDatetime(@)]]]

\* df['campaign_id'] = df['campaign_id'].astype(str).str.strip()
WithNormalizedId(df) ==
    [df EXCEPT !.rows = [i \in 1..Len(df.rows) |->
                           [df.rows[i] EXCEPT !.campaign_id = StrStrip(AsTypeStr(@))]]]

Outcome(st, pa, fin, dups, shown) ==
    [status |-> st, path |-> pa, final_df |-> fin, duplicate_rows |-> dups,
     radio_rendered |-> shown]

\* the "Skip duplicates" branch
SkipBranch(which, existing, combined_df, dups) ==
    IF which = "app"
    THEN \* app.py:236 calls the undefined name `columns`: NameError, final_df is
         \* never assigned by the branch and the script run ends
         Outcome("NameError", "skip", EmptyFrame, dups, TRUE)
    ELSE Outcome("ok", "skip",
                 [columns |-> combined_df.columns,
                  rows |-> MergeLeftOnly(combined_df.rows, dups)],
                 dups, TRUE)

\* a plausible slip: the conflicting existing rows are not removed
OverwriteBranchKeepsAll(existing, combined_df, dups) ==
    Outcome("ok", "overwrite", Concat(existing, combined_df), dups, TRUE)

\* the "Overwrite duplicates" branch
OverwriteBranch(existing, combined_df, dups) ==
    LET cleaned == [existing EXCEPT !.rows = MergeLeftOnly(existing.rows, dups)]
    IN Outcome("ok", "overwrite", Concat(cleaned, combined_df), dups, TRUE)

\* a plausible slip: the two frames concatenated in the other order
NoConflictBranchSwapped(existing, combined_df) ==
    Outcome("ok", "no_conflict", Concat(combined_df, existing), <<>>, FALSE)

\* no duplicates: pd.concat([existing, combined_df])
NoConflictBranch(existing, combined_df) ==
    Outcome("ok", "no_conflict", Concat(existing, combined_df), <<>>, FALSE)

\* a side without campaign_id: dedupe by report_date alone
DateFallbackBranch(existing, combined_df) ==
    Outcome("ok", "date_fallback",
            Concat(existing,
                   [combined_df EXCEPT !.rows = NotIsInDate(combined_df.rows, existing.rows)]),
            <<>>, FALSE)

\* a plausible slip: the unusable existing rows are kept in front
FirstUploadBranchConcat(existing, combined_df) ==
    Outcome("ok", "first_upload", Concat(existing, combined_df), <<>>, FALSE)

\* no existing data: final_df = combined_df.copy()
FirstUploadBranch(existing, combined_df) ==
    Outcome("ok", "first_upload", combined_df, <<>>, FALSE)

Reconcile(which, sheet_df, batch, choice) ==
    LET co0 == WithAccountName(batch)
    IN IF ~IsEmpty(sheet_df) /\ "report_date" \in sheet_df.columns
       THEN LET ex0 == WithDatetime(sheet_df)
            IN IF "campaign_id" \in co0.columns /\ "campaign_id" \in ex0.columns
               THEN LET ex == WithNormalizedId(ex0)
                        co == WithNormalizedId(co0)
                        dups == MergeInner(co.rows, ex.rows)
                    IN IF dups # <<>>
                       THEN IF choice = "Overwrite duplicates"
                            THEN OverwriteBranch(ex, co, dups)
                            ELSE SkipBranch(which, ex, co, dups)
                       ELSE NoConflictBranch(ex, co)
               ELSE DateFallbackBranch(ex0, co0)
       ELSE FirstUploadBranch(sheet_df, co0)

\* final_df[col].dt.strftime('%Y-%m-%d') on the datetime columns, then astype(str)
Serialize(df) ==
    [df EXCEPT !.rows = [i \in 1..Len(df.rows) |->
        [df.rows[i] EXCEPT
           !.report_date = IF "report_date" \in df.columns
                           THEN AsTypeStr(Strftime(@)) ELSE @,
           !.campaign_id = IF "campaign_id" \in df.columns THEN AsTypeStr(@) ELSE @]]]

(***************************************************************************)
(* Ingestion of one uploaded workbook (the body of the for loop of         *)
(* render_file_uploader, repeated in app.py).                              *)
(*   name_date  what re.search(r"\d{4}-\d{2}-\d{2}", file.name) finds:     *)
(*              NaN when the name has no such substring                    *)
(*   columns    the normalised column names of the workbook                *)
(*   rows       its rows                                                   *)
(***************************************************************************)
\* pd.to_datetime of the matched substring raises unless it is a calendar date
IsCalendarDate(m) == m[2] = "01" /\ m[3] \in Dates

\* a plausible slip: the comparison includes zero
PositiveCostOrZero(r) == Fillna0(r.cost).v >= 0

\* df['cost'].fillna(0) > 0
PositiveCost(r) == Fillna0(r.cost).v > 0

\* df = df[df['cost'].fillna(0) > 0]
DropZeroSpend(rows) == SelectSeq(rows, PositiveCost)

IngestFile(f) ==
    IF f.name_date = NaN
    THEN [result |-> "warning", df |-> EmptyFrame]
    ELSE IF ~IsCalendarDate(f.name_date)
    THEN [result |-> "error", df |-> EmptyFrame]
    ELSE LET dated == [i \in 1..Len(f.rows) |->
                         [f.rows[i] EXCEPT !.report_date = ToDatetime(f.name_date)]]
             spent == IF "cost" \in f.columns THEN DropZeroSpend(dated) ELSE dated
             marked == [i \in 1..Len(spent) |->
                          [spent[i] EXCEPT
                             !.campaign_id = IF "campaign_id" \in f.columns
                                             THEN AddMarker(@) ELSE @,
                             !.upload_date = <<"today">>]]
         IN [result |-> "appended",
             df |-> [columns |-> f.columns \cup {"report_date", "upload_date"},
                     rows |-> marked]]

\* pd.concat(all_data, ignore_index=True)
RECURSIVE ConcatAll(_)
ConcatAll(frames) ==
    IF frames = <<>> THEN EmptyFrame ELSE Concat(Head(frames), ConcatAll(Tail(frames)))

(***************************************************************************)
(* State.                                                                  *)
(***************************************************************************)
VARIABLES
    existing,        \* pd.DataFrame(sh.get_all_records()) as read by the upload
    combined_df,     \* pd.concat(all_data): the incoming batch
    impl,            \* which copy of the upload code runs: "component" or "app"
    overwrite,       \* value returned by st.radio, "not asked" when not rendered
    status,          \* "ok" or the exception that ended the upload
    path,            \* branch taken by the upload
    final_df,        \* the merged frame
    duplicate_rows,  \* the conflict set
    rerun_df,        \* final_df of a second application to the first result
    all_data,        \* the frames of the ingested files
    dropped,         \* rows of the last handled file that ingestion left out
    file_idx,        \* number of uploaded files handled by the loop
    notice,          \* what the loop did with it: appended, warning or error
    sheet,           \* the worksheet: its rows, top to bottom
    uploader,        \* st.session_state["uploader"]: the files in the widget
    clear_uploader,  \* st.session_state["clear_uploader"]
    radio_shown,     \* the policy radio is on the page
    radio_state,     \* the radio's value held by the page, "absent" if none
    user_picked,     \* that value was picked by the user
    last_write,      \* the last sh.update: its path and whether the user chose
    campaign_name,   \* argument of extract_account
    account,         \* what extract_account returned
    data,            \* the frame the dashboard works on (load_data, filtered_data)
    export_granularity, \* the export's grouping: "Daily", "Weekly" or "Monthly"
    summary_df,      \* output of the export aggregation
    chart_data,      \* output of a chart aggregation
    kpis,            \* output of the KPI computation
    ranking,         \* outcome of the campaign ranking: "none", "ok", "KeyError", "hidden"
    top_campaigns_data,        \* the first three campaign summaries
    remaining_campaigns_data,  \* the campaign summaries after them
    workbook,        \* the Excel file of the export: its sheets, or the error
    enable_auth,     \* ENABLE_AUTH
    authenticated,   \* st.session_state.authenticated: "absent" or "true"
    is_admin,        \* st.session_state.is_admin: "absent", "true" or "false"
    screen,          \* what the last run put on the page: "none", "login" or "app"
    upload_section,  \* the upload section is on the page
    zapier_section,  \* the notification section is on the page
    auth_log,        \* the forms and buttons submitted so far, oldest first
    report_day,      \* a record's report_date, in days counted from 2024-01-01 = 1
    period,          \* the period the export assigns to it, counted the same way
    secrets,         \* the keys present in st.secrets
    send_pc,         \* where the notification send stands
    chart_i,         \* position in target_charts_to_upload of the chart at hand
    excel_report_url,   \* what upload_excel_to_gcs returned: "none", "url" or "None"
    zapier_chart_urls,  \* the keys of the chart URLs collected so far
    result,          \* what prepare_and_upload_data returned
    send_log,        \* the uploads, posts and returns so far, oldest first
    selection,       \* the sidebar's date range and selected campaigns and accounts
    filtered_data,   \* what filter_data returned
    phase

recVars == <<existing, combined_df, overwrite, status, path, final_df, duplicate_rows>>

ingVars == <<dropped, file_idx, notice>>

sesVars == <<sheet, uploader, clear_uploader, radio_shown, radio_state, user_picked,
             last_write>>

anaVars == <<campaign_name, account, data, export_granularity, summary_df, chart_data,
             kpis>>

rankVars == <<ranking, top_campaigns_data, remaining_campaigns_data>>

periodVars == <<report_day, period>>

authVars == <<enable_auth, authenticated, is_admin, screen, upload_section,
              zapier_section, auth_log>>

notifyVars == <<secrets, send_pc, chart_i, excel_report_url, zapier_chart_urls, result,
                send_log>>

filterVars == <<selection, filtered_data>>

sendVars == <<notifyVars, filterVars>>

viewVars == <<rankVars, periodVars, workbook, authVars, sendVars>>

vars == <<recVars, impl, rerun_df, all_data, ingVars, sesVars, anaVars, viewVars, phase>>

NoWrite == [conflicts |-> FALSE, picked |-> FALSE, rows |-> 0, policy |-> "none"]

IdleReconcile ==
    /\ existing = EmptyFrame
    /\ combined_df = EmptyFrame
    /\ overwrite = "not asked"
    /\ status = "none"
    /\ path = "none"
    /\ final_df = EmptyFrame
    /\ duplicate_rows = <<>>

IdleIngest ==
    /\ dropped = 0
    /\ file_idx = 0
    /\ notice = "none"

\* no aggregation made yet
NoGroups == [kind |-> "none", columns |-> {}, groups |-> {}]

\* a float held exactly: n / d, or one of the values that are not numbers
Ratio(n, d) == [kind |-> "num", n |-> n, d |-> d]

Zero == Ratio(0, 1)

\* no KPI computed yet
NoKpis == [kind |-> "none", total_cost |-> 0, total_revenue |-> 0, total_orders |-> 0,
           avg_roi |-> Zero, avg_cost_per_order |-> Zero]

IdleAnalysis ==
    /\ campaign_name = NaN
    /\ account = "none"
    /\ data = EmptyFrame
    /\ export_granularity = "Weekly"
    /\ summary_df = NoGroups
    /\ chart_data = NoGroups
    /\ kpis = NoKpis

IdleRanking ==
    /\ ranking = "none"
    /\ top_campaigns_data = <<>>
    /\ remaining_campaigns_data = <<>>

IdlePeriod ==
    /\ report_day = 1
    /\ period = 1

\* no Excel file written yet
NoWorkbook == [status |-> "none", sheets |-> {}]

IdleAuth ==
    /\ enable_auth = FALSE
    /\ authenticated = "absent"
    /\ is_admin = "absent"
    /\ screen = "none"
    /\ upload_section = FALSE
    /\ zapier_section = FALSE
    /\ auth_log = <<>>

NoResult == [success |-> FALSE, error |-> "none"]

IdleNotify ==
    /\ secrets = {}
    /\ send_pc = "idle"
    /\ chart_i = 1
    /\ excel_report_url = "none"
    /\ zapier_chart_urls = {}
    /\ result = NoResult
    /\ send_log = <<>>

NoSelection == [start_date |-> 1, end_date |-> 1, campaigns |-> {}, accounts |-> {}]

NoFrame == [status |-> "none", columns |-> {}, rows |-> <<>>]

IdleFilter ==
    /\ selection = NoSelection
    /\ filtered_data = NoFrame

IdleView ==
    /\ IdleRanking
    /\ IdlePeriod
    /\ workbook = NoWorkbook
    /\ IdleAuth
    /\ IdleNotify
    /\ IdleFilter

IdleSession ==
    /\ sheet = <<>>
    /\ uploader = <<>>
    /\ clear_uploader = FALSE
    /\ radio_shown = FALSE
    /\ radio_state = "absent"
    /\ user_picked = FALSE
    /\ last_write = NoWrite

(***************************************************************************)
(* Inputs of the reconciliation.                                           *)
(***************************************************************************)
BoundedSeq(S, n) == UNION { [1..k -> S] : k \in 0..n }

\* a row as get_all_records returns it: campaign c, campaign_id cell sid,
\* report_date cell cell (a 'YYYY-MM-DD' string)
SheetRow(c, sid, cell) ==
    [campaign_id |-> sid, campaign_name |-> CampaignNameOf(c),
     account_name |-> extract_account(CampaignNameOf(c)),
     report_date |-> cell, cost |-> Num(10), upload_date |-> <<"earlier">>]

\* a row of an ingested workbook for date d
BatchRow(c, cid, d) ==
    [campaign_id |-> cid, campaign_name |-> CampaignNameOf(c),
     account_name |-> NaN, report_date |-> d, cost |-> Num(20), upload_date |-> <<"today">>]

\* the campaign a sheet campaign_id cell belongs to
CampaignOfCell(sid) == IF sid[2] = "A" THEN <<"A">> ELSE <<"B">>

BaseColumns == {"campaign_name", "cost", "upload_date"}

\* rows of a sheet written by earlier uploads: campaign A on both days,
\* campaign B on the first, and every campaign_id cell of SheetIds
KeyedRows ==
    { SheetRow(CampaignOfCell(sid), sid, DateCell(1)) : sid \in SheetIds }
    \cup { SheetRow(<<"A">>, AddMarker(<<"A">>), DateCell(2)) }

\* rows of a sheet in which a campaign_id cell holds the identifier without
\* the marker (the sheet shows '123 as 123 when the input is interpreted as
\* typed by a user, and cells can be entered by hand)
PlainIdRows ==
    { SheetRow(<<"A">>, <<"A">>, DateCell(1)),
      SheetRow(<<"B">>, AddMarker(<<"B">>), DateCell(1)) }

\* rows of a sheet in which a report_date cell has been left empty
BlankDateRows ==
    { SheetRow(<<"A">>, AddMarker(<<"A">>), DateCell(1)),
      SheetRow(<<"A">>, AddMarker(<<"A">>), BlankCell),
      SheetRow(<<"B">>, AddMarker(<<"B">>), BlankCell) }

ExistingFrames ==
    { [columns |-> BaseColumns \cup {"account_name", "campaign_id", "report_date"}, rows |-> r] :
        r \in BoundedSeq(KeyedRows, MaxExisting) }
    \cup
    { f \in { [columns |-> BaseColumns \cup {"account_name", "campaign_id", "report_date"},
               rows |-> r] : r \in BoundedSeq(BlankDateRows, MaxExisting) } :
        \E i \in 1..Len(f.rows) : f.rows[i].report_date = BlankCell }
    \cup
    { f \in { [columns |-> BaseColumns \cup {"account_name", "campaign_id", "report_date"},
               rows |-> r] : r \in BoundedSeq(PlainIdRows, MaxExisting) } :
        \E i \in 1..Len(f.rows) : f.rows[i].campaign_id = <<"A">> }
    \cup
    { [columns |-> BaseColumns \cup {"account_name", "report_date"}, rows |-> r] :
        r \in BoundedSeq({ SheetRow(<<"A">>, NaN, DateCell(1)),
                           SheetRow(<<"B">>, NaN, DateCell(2)) }, MaxExisting) }
    \cup
    { [columns |-> BaseColumns \cup {"account_name", "campaign_id"}, rows |-> r] :
        r \in BoundedSeq({ SheetRow(c, AddMarker(c), NaN) : c \in RawIds }, MaxExisting) }

IncomingFrames ==
    { [columns |-> BaseColumns \cup {"campaign_id", "report_date"}, rows |-> r] :
        r \in BoundedSeq({ BatchRow(c, AddMarker(c), d) : c \in RawIds, d \in Dates },
                         MaxIncoming) }
    \cup
    { [columns |-> BaseColumns \cup {"report_date"}, rows |-> r] :
        r \in BoundedSeq({ BatchRow(<<"A">>, NaN, 1), BatchRow(<<"B">>, NaN, 2) },
                         MaxIncoming) }

(***************************************************************************)
(* SpecReconcile: the reconciliation applied to every bounded input.       *)
(***************************************************************************)
InitReconcile ==
    /\ existing \in ExistingFrames
    /\ combined_df \in IncomingFrames
    /\ impl = "none"
    /\ overwrite = "not asked"
    /\ status = "none"
    /\ path = "none"
    /\ final_df = EmptyFrame
    /\ duplicate_rows = <<>>
    /\ rerun_df = EmptyFrame
    /\ all_data = <<>>
    /\ IdleIngest
    /\ IdleSession
    /\ IdleAnalysis
    /\ IdleView
    /\ phase = "ready"

Apply(which, choice) ==
    LET r == Reconcile(which, existing, combined_df, choice)
    IN /\ impl' = which
       /\ overwrite' = IF r.radio_rendered THEN choice ELSE "not asked"
       /\ status' = r.status
       /\ path' = r.path
       /\ final_df' = r.final_df
       /\ duplicate_rows' = r.duplicate_rows
       /\ phase' = "reconciled"
       /\ UNCHANGED <<viewVars, anaVars, existing, combined_df, rerun_df, all_data, ingVars, sesVars>>

\* components/file_uploader.py:upload_data_to_sheets
UploadComponent ==
    /\ phase = "ready"
    /\ \E choice \in RadioOptions : Apply("component", choice)

\* the same steps inline in app.py:run_main_app
UploadApp ==
    /\ phase = "ready"
    /\ \E choice \in RadioOptions : Apply("app", choice)

\* the overwrite reconciliation applied again, with the same batch, to the
\* rows the first application handed back for storage
ReapplyOverwrite ==
    /\ phase = "reconciled"
    /\ status = "ok"
    /\ overwrite # "Skip duplicates"
    /\ LET r == Reconcile(impl, Serialize(final_df), combined_df, "Overwrite duplicates")
       IN rerun_df' = r.final_df
    /\ phase' = "reapplied"
    /\ UNCHANGED <<viewVars, anaVars, recVars, impl, all_data, ingVars, sesVars>>

NextReconcile == UploadComponent \/ UploadApp \/ ReapplyOverwrite

SpecReconcile == InitReconcile /\ [][NextReconcile]_vars

(***************************************************************************)
(* SpecIngest: the ingestion loop over the uploaded files.                 *)
(***************************************************************************)
MaxFiles == 3

MaxFileRows == 2

\* cost cells of a workbook: missing, negative, zero, positive
RawCosts == { NullNum, Num(0 - 5), Num(0), Num(20) }

\* row i of a workbook is about campaign A or B in turn
CampaignAt(i) == IF i % 2 = 1 THEN <<"A">> ELSE <<"B">>

RawRow(c, hasId, cost) ==
    [campaign_id |-> IF hasId THEN c ELSE NaN, campaign_name |-> CampaignNameOf(c),
     account_name |-> NaN, report_date |-> NaT, cost |-> cost, upload_date |-> NaN]

\* what the date pattern can find in a file name: nothing, a calendar date,
\* or digits that are no calendar date (month 13)
NameDates == { NaN, <<"2024", "13", 1>>, DateCell(1) }

Workbook(nd, hasCost, costs) ==
    [name_date |-> nd,
     columns |-> {"campaign_name", "campaign_id"} \cup (IF hasCost THEN {"cost"} ELSE {}),
     rows |-> [i \in 1..Len(costs) |-> RawRow(CampaignAt(i), TRUE, costs[i])]]

UploadedFiles ==
    { Workbook(nd, TRUE, costs) :
        nd \in NameDates, costs \in BoundedSeq(RawCosts, MaxFileRows) }
    \cup
    { Workbook(nd, FALSE, costs) :
        nd \in NameDates, costs \in BoundedSeq({NullNum}, MaxFileRows) }

FilesWith(outcome) == { f \in UploadedFiles : IngestFile(f).result = outcome }

UndatedFiles == FilesWith("warning")

UnreadableFiles == FilesWith("error")

GoodFiles == FilesWith("appended")

InitIngest ==
    /\ IdleReconcile
    /\ impl = "none"
    /\ rerun_df = EmptyFrame
    /\ all_data = <<>>
    /\ IdleIngest
    /\ IdleSession
    /\ IdleAnalysis
    /\ IdleView
    /\ phase = "ingest"

Handle(f, outcome) ==
    /\ phase = "ingest"
    /\ file_idx < MaxFiles
    /\ file_idx' = file_idx + 1
    /\ notice' = outcome
    /\ dropped' = IF outcome = "appended"
                  THEN Len(f.rows) - Len(IngestFile(f).df.rows) ELSE 0
    /\ UNCHANGED <<viewVars, anaVars, recVars, impl, rerun_df, sesVars, phase>>

\* no date in the file name: st.warning and continue
SkipUndated ==
    \E f \in UndatedFiles : Handle(f, "warning") /\ UNCHANGED all_data

\* an exception inside the try block: st.error, next file
RejectFile ==
    \E f \in UnreadableFiles : Handle(f, "error") /\ UNCHANGED all_data

\* all_data.append(df)
AppendFile ==
    \E f \in GoodFiles :
        Handle(f, "appended") /\ all_data' = Append(all_data, IngestFile(f).df)

NextIngest == SkipUndated \/ RejectFile \/ AppendFile

SpecIngest == InitIngest /\ [][NextIngest]_vars

(***************************************************************************)
(* SpecLoop: the for loop of render_file_uploader over one submission, the *)
(* files of the uploader taken in order, one iteration per step.           *)
(***************************************************************************)
\* the workbooks of a submission: named without a date, with digits that are
\* no calendar date, or with a date; holding one row (campaign A) or a
\* zero-spend row (campaign A) and a row of campaign B
SubmissionFiles ==
    { Workbook(nd, TRUE, costs) :
        nd \in NameDates \cup {DateCell(2)},
        costs \in { <<Num(20)>>, <<Num(0), Num(20)>> } }

InitLoop ==
    /\ IdleReconcile
    /\ impl = "none"
    /\ rerun_df = EmptyFrame
    /\ all_data = <<>>
    /\ IdleIngest
    /\ sheet = <<>>
    /\ uploader \in BoundedSeq(SubmissionFiles, MaxFiles)
    /\ clear_uploader = FALSE
    /\ radio_shown = FALSE
    /\ radio_state = "absent"
    /\ user_picked = FALSE
    /\ last_write = NoWrite
    /\ IdleAnalysis
    /\ IdleView
    /\ phase = "loop"

\* a plausible slip: break where the code has continue
LoopStepBreak ==
    /\ phase = "loop"
    /\ file_idx < Len(uploader)
    /\ LET r == IngestFile(uploader[file_idx + 1])
       IN /\ notice' = r.result
          /\ file_idx' = IF r.result = "warning" THEN Len(uploader) ELSE file_idx + 1
          /\ all_data' = IF r.result = "appended" THEN Append(all_data, r.df) ELSE all_data
    /\ UNCHANGED <<viewVars, anaVars, recVars, impl, rerun_df, dropped, sesVars, phase>>

\* one iteration: st.warning and continue, st.error in the except clause, or
\* all_data.append(df); then the next file
LoopStep ==
    /\ phase = "loop"
    /\ file_idx < Len(uploader)
    /\ LET r == IngestFile(uploader[file_idx + 1])
       IN /\ notice' = r.result
          /\ file_idx' = file_idx + 1
          /\ all_data' = IF r.result = "appended" THEN Append(all_data, r.df) ELSE all_data
    /\ UNCHANGED <<viewVars, anaVars, recVars, impl, rerun_df, dropped, sesVars, phase>>

\* the loop is over: all_data is what the upload button will hand on
LoopDone ==
    /\ phase = "loop"
    /\ file_idx = Len(uploader)
    /\ phase' = "loaded"
    /\ UNCHANGED <<viewVars, anaVars, recVars, impl, rerun_df, all_data, ingVars, sesVars>>

NextLoop == LoopStep \/ LoopDone

SpecLoop == InitLoop /\ [][NextLoop]_vars

(***************************************************************************)
(* SpecClassify: extract_account applied to a campaign name.               *)
(***************************************************************************)
MaxChunks == 3

UpperOf ==
    [c \in { LowerLetters[i] : i \in 1..Len(LowerLetters) } |->
        UpperLetters[CHOOSE i \in 1..Len(LowerLetters) : LowerLetters[i] = c]]

UpperChar(c) == IF c \in DOMAIN UpperOf THEN UpperOf[c] ELSE c

StrUpper(name) == [i \in 1..Len(name) |-> UpperChar(name[i])]

\* pieces campaign names are put together from: the two patterns in lower
\* case, in upper case and capitalised, parts of them, a space, other text
NameChunks ==
    { GranitestonePattern, StrUpper(GranitestonePattern), CampaignNameOf(<<"A">>),
      BellAndHowellPattern, StrUpper(BellAndHowellPattern), CampaignNameOf(<<"B">>),
      SubSeq(GranitestonePattern, 1, 7), SubSeq(BellAndHowellPattern, 1, 4),
      SubSeq(BellAndHowellPattern, 6, 15), <<" ">>, <<"P", "r", "o", "m", "o">> }

RECURSIVE Flatten(_)
Flatten(chunks) == IF chunks = <<>> THEN <<>> ELSE Head(chunks) \o Flatten(Tail(chunks))

\* campaign_name cells: a missing cell, or text
CampaignNames == {NaN} \cup { Flatten(cs) : cs \in BoundedSeq(NameChunks, MaxChunks) }

InitClassify ==
    /\ IdleReconcile
    /\ impl = "none"
    /\ rerun_df = EmptyFrame
    /\ all_data = <<>>
    /\ IdleIngest
    /\ IdleSession
    /\ campaign_name \in CampaignNames
    /\ account = "none"
    /\ data = EmptyFrame
    /\ export_granularity = "Weekly"
    /\ summary_df = NoGroups
    /\ chart_data = NoGroups
    /\ kpis = NoKpis
    /\ IdleView
    /\ phase = "classify"

Classify ==
    /\ phase = "classify"
    /\ account' = extract_account(campaign_name)
    /\ phase' = "classified"
    /\ UNCHANGED <<viewVars, recVars, impl, rerun_df, all_data, ingVars, sesVars,
                   campaign_name, data, export_granularity, summary_df, chart_data,
                   kpis>>

NextClassify == Classify

SpecClassify == InitClassify /\ [][NextClassify]_vars

(***************************************************************************)
(* SpecLoad: what the dashboard has after load_data and the account column *)
(* handling of run_main_app, and what an upload has after it has labelled  *)
(* the batch.                                                              *)
(***************************************************************************)
MaxLoaded == 2

AccountLabels == {"Granitestone", "Bell+Howell", "Other Accounts"}

\* an account_name cell left empty in the sheet
BlankLabel == ""

\* a cell of a numeric column that holds text or nothing
TextCell == [null |-> TRUE, v |-> 0, text |-> TRUE]

\* pd.to_numeric(errors='coerce')
ToNumeric(c) == IF "text" \in DOMAIN c THEN NullNum ELSE c

OtherName == <<"P", "r", "o", "m", "o">>

\* campaign_name cells of the sheet
LoadedNames == { CampaignNameOf(<<"A">>), CampaignNameOf(<<"B">>), OtherName, BlankCell }

LoadedRow(name, acct, cell, cost) ==
    [campaign_id |-> AddMarker(<<"A">>), campaign_name |-> name, account_name |-> acct,
     report_date |-> cell, cost |-> cost, upload_date |-> <<"earlier">>]

DateCells == { DateCell(1), BlankCell }

\* sh.get_all_records() of a sheet: written by uploads (account_name holds the
\* label of the campaign), with an account_name cell left empty, without the
\* account_name column (older data), without campaign_name as well, without
\* report_date
SheetFrames ==
    { [columns |-> {"campaign_id", "campaign_name", "account_name", "report_date", "cost"},
       rows |-> r] :
        r \in BoundedSeq({ LoadedRow(n, extract_account(n), c, Num(10)) :
                             n \in LoadedNames, c \in DateCells }
                         \cup { LoadedRow(OtherName, BlankLabel, DateCell(1), TextCell) },
                         MaxLoaded) }
    \cup
    { [columns |-> {"campaign_id", "campaign_name", "report_date", "cost"}, rows |-> r] :
        r \in BoundedSeq({ LoadedRow(n, NaN, DateCell(1), Num(10)) : n \in LoadedNames },
                         MaxLoaded) }
    \cup
    { [columns |-> {"campaign_id", "report_date", "cost"}, rows |-> r] :
        r \in BoundedSeq({ LoadedRow(NaN, NaN, DateCell(1), Num(10)) }, MaxLoaded) }
    \cup
    { [columns |-> {"campaign_id", "campaign_name", "cost"}, rows |-> r] :
        r \in BoundedSeq({ LoadedRow(OtherName, NaN, NaN, Num(10)) }, MaxLoaded) }

\* batches of an upload: rows named like the sheet rows, or no campaign_name
\* column
LabelFrames ==
    { [columns |-> BaseColumns \cup {"campaign_id", "report_date"}, rows |-> r] :
        r \in BoundedSeq({ [BatchRow(<<"A">>, AddMarker(<<"A">>), 1)
                               EXCEPT !.campaign_name = n] : n \in LoadedNames },
                         MaxLoaded) }
    \cup
    { [columns |-> {"cost", "upload_date", "campaign_id", "report_date"}, rows |-> r] :
        r \in BoundedSeq({ [BatchRow(<<"A">>, AddMarker(<<"A">>), 1)
                               EXCEPT !.campaign_name = NaN] }, MaxLoaded) }

\* load_data: numeric columns coerced, report_date parsed with errors='coerce'
load_data(df) ==
    IF IsEmpty(df) THEN df
    ELSE [df EXCEPT !.rows = [i \in 1..Len(df.rows) |->
            [df.rows[i] EXCEPT
               !.cost = IF "cost" \in df.columns THEN ToNumeric(@) ELSE @,
               !.report_date = IF "report_date" \in df.columns THEN ToDatetime(@) ELSE @]]]

\* st.stop() when report_date is missing or holds no date
NoValidDates(df) ==
    \/ "report_date" \notin df.columns
    \/ \A i \in 1..Len(df.rows) : df.rows[i].report_date = NaT

\* the account column handling: placeholder columns for an empty frame, the
\* column derived with extract_account when the frame has none
AccountColumnHandling(df) ==
    IF IsEmpty(df)
    THEN [df EXCEPT !.columns = @ \cup {"campaign_name", "account_name"}]
    ELSE IF "account_name" \notin df.columns
    THEN [columns |-> df.columns \cup {"account_name"},
          rows |-> [i \in 1..Len(df.rows) |->
                      [df.rows[i] EXCEPT !.account_name =
                          IF "campaign_name" \in df.columns
                          THEN extract_account(df.rows[i].campaign_name)
                          ELSE "Other Accounts"]]]
    ELSE df

InitLoad ==
    /\ existing \in SheetFrames
    /\ combined_df \in LabelFrames
    /\ overwrite = "not asked"
    /\ status = "none"
    /\ path = "none"
    /\ final_df = EmptyFrame
    /\ duplicate_rows = <<>>
    /\ impl = "none"
    /\ rerun_df = EmptyFrame
    /\ all_data = <<>>
    /\ IdleIngest
    /\ IdleSession
    /\ IdleAnalysis
    /\ IdleView
    /\ phase = "start"

\* the page loads the sheet; the records are available unless st.stop() ends
\* the run
LoadSheet ==
    /\ phase = "start"
    /\ LET df == load_data(existing)
       IN IF NoValidDates(df)
          THEN data' = df /\ phase' = "stopped"
          ELSE data' = AccountColumnHandling(df) /\ phase' = "loaded"
    /\ UNCHANGED <<viewVars, recVars, impl, rerun_df, all_data, ingVars, sesVars,
                   campaign_name, account, export_granularity, summary_df, chart_data,
                   kpis>>

\* an upload labels its batch
LabelBatch ==
    /\ phase = "start"
    /\ data' = WithAccountName(combined_df)
    /\ phase' = "labelled"
    /\ UNCHANGED <<viewVars, recVars, impl, rerun_df, all_data, ingVars, sesVars,
                   campaign_name, account, export_granularity, summary_df, chart_data,
                   kpis>>

NextLoad == LoadSheet \/ LabelBatch

SpecLoad == InitLoad /\ [][NextLoad]_vars

(***************************************************************************)
(* SpecAnalysis: the aggregations made from the filtered records: the      *)
(* export summary, the KPI figures and the chart series.  Additive metrics *)
(* are whole numbers; the per-record ratio columns (roi, cost_per_order)   *)
(* are held in hundredths.  The column 'orders_(sku)' is written orders.   *)
(***************************************************************************)
MaxRecords == 2

Infinite == [kind |-> "inf", n |-> 0, d |-> 1]

NotANumber == [kind |-> "nan", n |-> 0, d |-> 1]

NA == [kind |-> "na", n |-> 0, d |-> 1]

\* float division of two sums
Divide(n, d) ==
    IF d # 0 THEN Ratio(n, d)
    ELSE IF n = 0 THEN NotANumber ELSE Infinite

\* replace([inf, -inf], pd.NA)
ReplaceInf(x) == IF x.kind = "inf" THEN NA ELSE x

\* a plausible slip: the missing values are left in
FillNaSkipped(x) == x

\* fillna(0)
FillNa(x) == IF x.kind \in {"nan", "na"} THEN Zero ELSE x

\* rounding a / b to the nearest whole number, ties to even
RoundHalfEven(a, b) ==
    LET q == a \div b
        r == a % b
    IN IF 2 * r < b THEN q
       ELSE IF 2 * r > b THEN q + 1
       ELSE IF q % 2 = 0 THEN q ELSE q + 1

\* round(2)
Round2(x) == IF x.kind = "num" THEN Ratio(RoundHalfEven(100 * x.n, x.d), 100) ELSE x

Granularities == {"Daily", "Weekly", "Monthly"}

\* days of January 2024 the records are dated; the 1st and the 8th are Mondays
ReportDays == {1, 2, 8}

IsLeap(y) == (y % 4 = 0 /\ y % 100 # 0) \/ y % 400 = 0

DaysInMonth(y, m) ==
    IF m = 2 THEN (IF IsLeap(y) THEN 29 ELSE 28)
    ELSE IF m \in {4, 6, 9, 11} THEN 30 ELSE 31

RECURSIVE CivilFrom(_, _, _, _)
\* the calendar date of day n, walking the months from (y, m), whose first
\* day is day n0
CivilFrom(y, m, n0, n) ==
    IF n < n0 + DaysInMonth(y, m)
    THEN [year |-> y, month |-> m, day |-> n - n0 + 1]
    ELSE IF m = 12 THEN CivilFrom(y + 1, 1, n0 + 31, n)
    ELSE CivilFrom(y, m + 1, n0 + DaysInMonth(y, m), n)

\* the calendar date of day n (day 1 is 2024-01-01, day -364 is 2023-01-01)
Civil(n) == CivilFrom(2023, 1, 0 - 364, n)

\* a plausible slip: weeks that start on Sunday
PeriodOfSundayStart(g, d) ==
    CASE g = "Weekly" -> d - (d % 7)
      [] g = "Monthly" -> d - Civil(d).day + 1
      [] OTHER -> d

\* the period a report_date falls in: the day (dt.date), the start of its
\* week ending Sunday (to_period("W").start_time; day 1 is a Monday), the
\* start of its month (to_period("M").start_time)
PeriodOf(g, d) ==
    CASE g = "Weekly" -> d - ((d - 1) % 7)
      [] g = "Monthly" -> d - Civil(d).day + 1
      [] OTHER -> d

MetricColumns == {"cost", "gross_revenue", "orders", "roi", "cost_per_order"}

KeyColumns == {"account_name", "campaign_name", "report_date"}

MetricRow(id, d, cost, rev, orders, roi, cpo) ==
    [account_name |-> extract_account(CampaignNameOf(id)),
     campaign_name |-> CampaignNameOf(id), report_date |-> d,
     cost |-> cost, gross_revenue |-> rev, orders |-> orders,
     roi |-> roi, cost_per_order |-> cpo]

\* records of the filtered data
MetricRows ==
    { MetricRow(<<"A">>, 1, Num(100), Num(150), Num(3), Num(150), Num(3333)),
      MetricRow(<<"A">>, 1, Num(200), Num(250), Num(4), Num(125), Num(5000)),
      MetricRow(<<"A">>, 2, Num(0), Num(150), Num(0), NullNum, NullNum),
      MetricRow(<<"B">>, 1, Num(100), Num(0), Num(0), Num(0), NullNum),
      MetricRow(<<"B">>, 8, NullNum, Num(250), Num(3), NullNum, NullNum),
      MetricRow(<<"A">>, 8, Num(200), Num(150), Num(0), Num(75), NullNum) }

\* the numeric columns a frame may have
ColumnVariants ==
    { MetricColumns, MetricColumns \ {"cost"}, MetricColumns \ {"orders"},
      MetricColumns \ {"gross_revenue"}, MetricColumns \ {"roi", "cost_per_order"} }

\* a record of a frame without some numeric columns
ProjectRow(r, m) ==
    [r EXCEPT !.cost = IF "cost" \in m THEN @ ELSE NullNum,
              !.gross_revenue = IF "gross_revenue" \in m THEN @ ELSE NullNum,
              !.orders = IF "orders" \in m THEN @ ELSE NullNum,
              !.roi = IF "roi" \in m THEN @ ELSE NullNum,
              !.cost_per_order = IF "cost_per_order" \in m THEN @ ELSE NullNum]

\* filtered_data: the loaded records inside the sidebar's date range
FilteredFrames ==
    { [columns |-> KeyColumns \cup m,
       rows |-> [i \in 1..Len(r) |-> ProjectRow(r[i], m)]] :
        m \in ColumnVariants, r \in BoundedSeq(MetricRows, MaxRecords) }

RECURSIVE SumOver(_, _)
\* sum(): the total of f over S
SumOver(f, S) ==
    IF S = {} THEN 0
    ELSE LET x == CHOOSE y \in S : TRUE
         IN f[x] + SumOver(f, S \ {x})

\* the sum of a column over some rows; missing values count as nothing
GroupSum(df, col, members) ==
    SumOver([i \in members |-> IF df.rows[i][col].null THEN 0 ELSE df.rows[i][col].v],
            members)

\* groupby(...)[numeric_columns].sum() of one group
GroupSums(df, members) ==
    [c \in MetricColumns |-> IF c \in df.columns THEN GroupSum(df, c, members) ELSE 0]

\* a plausible slip: the summed roi column is kept
RecalculatedRoiSummed(columns, sums) == Ratio(sums["roi"], 100)

\* roi of a group: gross_revenue / cost of the summed columns
RecalculatedRoi(columns, sums) ==
    IF {"gross_revenue", "cost"} \subseteq columns
    THEN Divide(sums["gross_revenue"], sums["cost"])
    ELSE Zero

\* cost_per_order of a group: cost / orders of the summed columns, when some
\* group has orders
RecalculatedCpo(columns, sums, anyOrders) ==
    IF {"cost", "orders"} \subseteq columns /\ anyOrders
    THEN Divide(sums["cost"], sums["orders"])
    ELSE Zero

\* the export aggregation: sums by account, campaign and period, the two
\* ratios recalculated and cleaned.  The groups are held as a set.
process_export_data(df, g) ==
    LET all == 1..Len(df.rows)
        key(i) == <<df.rows[i].account_name, df.rows[i].campaign_name,
                    PeriodOf(g, df.rows[i].report_date)>>
        keys == { key(i) : i \in all }
        members(k) == { i \in all : key(i) = k }
        anyOrders == \E k \in keys : GroupSums(df, members(k))["orders"] # 0
    IN [kind |-> "export",
        columns |-> ({"account_name", "campaign_name"} \cap df.columns) \cup {"period"}
                       \cup (df.columns \cap MetricColumns) \cup {"roi", "cost_per_order"},
        groups |->
          { LET sums == GroupSums(df, members(k))
            IN [account_name |-> k[1], campaign_name |-> k[2], date |-> Strftime(k[3]),
                cost |-> sums["cost"], gross_revenue |-> sums["gross_revenue"],
                orders |-> sums["orders"],
                roi |-> Round2(FillNa(ReplaceInf(RecalculatedRoi(df.columns, sums)))),
                cost_per_order |->
                    Round2(FillNa(ReplaceInf(
                        RecalculatedCpo(df.columns, sums, anyOrders))))] : k \in keys }]

\* mean(): of the values present
Mean(df, col) ==
    LET present == { i \in 1..Len(df.rows) : ~df.rows[i][col].null }
    IN IF present = {} THEN NotANumber
       ELSE Ratio(GroupSum(df, col, present), 100 * Cardinality(present))

\* a plausible slip: the mean of the per-record roi
AvgRoiMeanOfRows(df) ==
    IF "roi" \in df.columns THEN FillNa(Mean(df, "roi")) ELSE Zero

\* avg_roi: total revenue over total cost
AvgRoi(df) ==
    LET all == 1..Len(df.rows)
        total_cost == IF "cost" \in df.columns THEN GroupSum(df, "cost", all) ELSE 0
        total_revenue == IF "gross_revenue" \in df.columns
                         THEN GroupSum(df, "gross_revenue", all) ELSE 0
    IN IF total_cost > 0 THEN Ratio(total_revenue, total_cost) ELSE Zero

\* the KPI figures (raw_values of get_summary_metrics, the figures shown by
\* render_kpi_summary)
get_summary_metrics(df) ==
    LET sums == GroupSums(df, 1..Len(df.rows))
        avg_cpo == IF "cost_per_order" \in df.columns
                   THEN Mean(df, "cost_per_order") ELSE Zero
    IN [kind |-> "kpis",
        total_cost |-> sums["cost"],
        total_revenue |-> sums["gross_revenue"],
        total_orders |-> sums["orders"],
        avg_roi |-> AvgRoi(df),
        avg_cost_per_order |-> IF avg_cpo.kind = "nan" THEN Zero ELSE avg_cpo]

\* the sidebar's default selections, kept to the numeric columns there are
DefaultMainMetrics(df) == {"gross_revenue"} \cap df.columns

DefaultSideMetrics(df) == {"orders", "cost_per_order", "cost", "roi"} \cap df.columns

\* groupby(['report_date', 'campaign_name']).sum() of the selected metrics
ChartSums(df, metrics, kind) ==
    LET all == 1..Len(df.rows)
        key(i) == <<df.rows[i].report_date, df.rows[i].campaign_name>>
        keys == { key(i) : i \in all }
        members(k) == { i \in all : key(i) = k }
        sum(k, c) == IF c \in metrics THEN GroupSum(df, c, members(k)) ELSE 0
    IN [kind |-> kind,
        columns |-> {"report_date", "campaign_name"} \cup metrics,
        groups |->
          { [account_name |-> "", campaign_name |-> k[2], date |-> Strftime(k[1]),
             cost |-> sum(k, "cost"), gross_revenue |-> sum(k, "gross_revenue"),
             orders |-> sum(k, "orders"),
             roi |-> Ratio(sum(k, "roi"), 100),
             cost_per_order |-> Ratio(sum(k, "cost_per_order"), 100)] : k \in keys }]

\* the chart data of the notification: sums of cost, gross_revenue and orders
\* by date and campaign, roi and cost_per_order calculated from them
ZapierChartData(df) ==
    IF ~({"cost", "gross_revenue", "orders"} \subseteq df.columns)
    THEN [kind |-> "KeyError", columns |-> {}, groups |-> {}]
    ELSE
    LET all == 1..Len(df.rows)
        key(i) == <<df.rows[i].report_date, df.rows[i].campaign_name>>
        keys == { key(i) : i \in all }
        members(k) == { i \in all : key(i) = k }
    IN [kind |-> "notification",
        columns |-> {"report_date", "campaign_name", "cost", "gross_revenue", "orders",
                     "roi", "cost_per_order"},
        groups |->
          { LET sums == GroupSums(df, members(k))
            IN [account_name |-> "", campaign_name |-> k[2], date |-> Strftime(k[1]),
                cost |-> sums["cost"], gross_revenue |-> sums["gross_revenue"],
                orders |-> sums["orders"],
                roi |-> FillNa(ReplaceInf(Divide(sums["gross_revenue"], sums["cost"]))),
                cost_per_order |->
                    FillNa(ReplaceInf(Divide(sums["cost"], sums["orders"])))] :
              k \in keys }]

\* the "All Data" sheet and one sheet for each campaign (its name cut to 31
\* characters); closing a workbook that got no sheet raises IndexError
WriteWorkbook(summary) ==
    LET all_data_sheet == IF {"account_name", "campaign_name"} \cap summary.columns # {}
                    THEN { <<"All Data">> } ELSE {}
        campaigns == IF "campaign_name" \in summary.columns
                     THEN { SubSeq(grp.campaign_name, 1,
                                   IF Len(grp.campaign_name) < 31
                                   THEN Len(grp.campaign_name) ELSE 31) :
                              grp \in summary.groups }
                     ELSE {}
    IN IF summary.groups = {} THEN [status |-> "ok", sheets |-> {}]
       ELSE IF all_data_sheet \cup campaigns = {} THEN [status |-> "IndexError", sheets |-> {}]
       ELSE [status |-> "ok", sheets |-> all_data_sheet \cup campaigns]

InitAnalysis ==
    /\ IdleReconcile
    /\ impl = "none"
    /\ rerun_df = EmptyFrame
    /\ all_data = <<>>
    /\ IdleIngest
    /\ IdleSession
    /\ campaign_name = NaN
    /\ account = "none"
    /\ data \in FilteredFrames
    /\ export_granularity = "Weekly"
    /\ summary_df = NoGroups
    /\ chart_data = NoGroups
    /\ kpis = NoKpis
    /\ IdleView
    /\ phase = "view"

\* the export section: the grouping is picked, the summary made
ExportSection ==
    /\ phase = "view"
    /\ workbook = NoWorkbook
    /\ ~IsEmpty(data)
    /\ \E g \in Granularities :
          LET summary == process_export_data(data, g)
          IN /\ export_granularity' = g
             /\ workbook' = WriteWorkbook(summary)
             /\ summary_df' = IF WriteWorkbook(summary).status = "ok"
                              THEN summary ELSE NoGroups
    /\ UNCHANGED <<sendVars, rankVars, periodVars, authVars, recVars, impl, rerun_df, all_data,
                   ingVars, sesVars, campaign_name, account, data, chart_data, kpis, phase>>

\* the KPI summary of the dashboard
KpiSummary ==
    /\ phase = "view"
    /\ kpis = NoKpis
    /\ ~IsEmpty(data)
    /\ kpis' = get_summary_metrics(data)
    /\ UNCHANGED <<viewVars, recVars, impl, rerun_df, all_data, ingVars, sesVars, campaign_name,
                   account, data, export_granularity, summary_df, chart_data, phase>>

\* the KPI figures of the notification
SummaryMetrics ==
    /\ phase = "view"
    /\ kpis = NoKpis
    /\ kpis' = get_summary_metrics(data)
    /\ UNCHANGED <<viewVars, recVars, impl, rerun_df, all_data, ingVars, sesVars, campaign_name,
                   account, data, export_granularity, summary_df, chart_data, phase>>

\* the main chart: the default selection or every numeric column
MainMetricsChart ==
    /\ phase = "view"
    /\ chart_data = NoGroups
    /\ ~IsEmpty(data)
    /\ \E main_metrics \in {DefaultMainMetrics(data), data.columns \cap MetricColumns} :
          /\ main_metrics # {}
          /\ chart_data' = ChartSums(data, main_metrics, "main")
    /\ UNCHANGED <<viewVars, recVars, impl, rerun_df, all_data, ingVars, sesVars, campaign_name,
                   account, data, export_granularity, summary_df, kpis, phase>>

\* the side-by-side charts: the default selection or every numeric column
SideMetricCharts ==
    /\ phase = "view"
    /\ chart_data = NoGroups
    /\ ~IsEmpty(data)
    /\ \E side_metrics \in {DefaultSideMetrics(data), data.columns \cap MetricColumns} :
          /\ side_metrics # {}
          /\ chart_data' = ChartSums(data, side_metrics, "side")
    /\ UNCHANGED <<viewVars, recVars, impl, rerun_df, all_data, ingVars, sesVars, campaign_name,
                   account, data, export_granularity, summary_df, kpis, phase>>

\* the notification's chart data, made once the export summary is there
SendToZapier ==
    /\ phase = "view"
    /\ chart_data = NoGroups
    /\ ~IsEmpty(data)
    /\ summary_df # NoGroups
    /\ chart_data' = ZapierChartData(data)
    /\ UNCHANGED <<viewVars, recVars, impl, rerun_df, all_data, ingVars, sesVars, campaign_name,
                   account, data, export_granularity, summary_df, kpis, phase>>

NextAnalysis ==
    \/ ExportSection
    \/ KpiSummary
    \/ SummaryMetrics
    \/ MainMetricsChart
    \/ SideMetricCharts
    \/ SendToZapier

SpecAnalysis == InitAnalysis /\ [][NextAnalysis]_vars

(***************************************************************************)
(* SpecAuth: the authentication flow around run_main_app.  One action is   *)
(* one run of the script; a run that ends in st.rerun() leaves the page to *)
(* the run that follows it.                                                *)
(***************************************************************************)
MaxAuthEvents == 4

\* what a password field may hold: the secret, something else, nothing
Entries == {"correct", "wrong", ""}

\* pw == st.secrets["app_password"], admin_key == st.secrets["admin_key"]
SecretMatches(entry) == entry = "correct"

\* a plausible slip: every login is an admin login
LoginIsAdminAlways(admin_key) == "true"

\* is_admin as the login form sets it
LoginIsAdmin(admin_key) == IF SecretMatches(admin_key) THEN "true" ELSE "false"

\* a plausible slip: Logout leaves is_admin in the session
AfterLogoutKeepsAdmin == [authenticated |-> "absent", is_admin |-> is_admin]

\* the two flags after Logout
AfterLogout == [authenticated |-> "absent", is_admin |-> "absent"]

AuthEvent(kind, pw, key) == [kind |-> kind, pw |-> pw, key |-> key]

InitAuth ==
    /\ IdleReconcile
    /\ impl = "none"
    /\ rerun_df = EmptyFrame
    /\ all_data = <<>>
    /\ IdleIngest
    /\ IdleSession
    /\ IdleAnalysis
    /\ IdleRanking
    /\ IdlePeriod
    /\ workbook = NoWorkbook
    /\ IdleNotify
    /\ IdleFilter
    /\ enable_auth \in BOOLEAN
    /\ authenticated = "absent"
    /\ is_admin = "absent"
    /\ screen = "none"
    /\ upload_section = FALSE
    /\ zapier_section = FALSE
    /\ auth_log = <<>>
    /\ phase = "run"

AuthUnchanged ==
    UNCHANGED <<recVars, impl, rerun_df, all_data, ingVars, sesVars, anaVars, sendVars, rankVars,
                periodVars, workbook, enable_auth>>

\* run_main_app with the session's is_admin: the upload section comes first,
\* the notification section last and only if the run gets that far
MainApp(admin) ==
    /\ screen' = "app"
    /\ upload_section' = (admin = "true")
    /\ \E reached \in BOOLEAN : zapier_section' = (reached /\ admin = "true")

\* the page is left to the next run
LeavePage ==
    /\ screen' = "none"
    /\ upload_section' = FALSE
    /\ zapier_section' = FALSE
    /\ phase' = "rerun"

\* a run with no form submitted and no button pressed: the first run of the
\* session, the run after st.rerun(), or any other interaction
PlainRun ==
    /\ phase \in {"run", "rerun"}
    /\ IF ~enable_auth
       THEN /\ authenticated' = "true"
            /\ is_admin' = IF authenticated = "absent" THEN "true" ELSE is_admin
            /\ MainApp(IF authenticated = "absent" THEN "true" ELSE is_admin)
       ELSE IF authenticated = "absent"
       THEN /\ screen' = "login"
            /\ upload_section' = FALSE
            /\ zapier_section' = FALSE
            /\ UNCHANGED <<authenticated, is_admin>>
       ELSE /\ is_admin' = IF is_admin = "absent" THEN "false" ELSE is_admin
            /\ MainApp(IF is_admin = "absent" THEN "false" ELSE is_admin)
            /\ UNCHANGED authenticated
    /\ phase' = "run"
    /\ UNCHANGED auth_log
    /\ AuthUnchanged

\* the login form is submitted
SubmitLogin ==
    /\ phase = "run"
    /\ enable_auth
    /\ screen = "login"
    /\ Len(auth_log) < MaxAuthEvents
    /\ \E pw \in Entries, admin_key \in Entries :
          /\ auth_log' = Append(auth_log, AuthEvent("login", pw, admin_key))
          /\ IF SecretMatches(pw)
             THEN /\ authenticated' = "true"
                  /\ is_admin' = LoginIsAdmin(admin_key)
                  /\ LeavePage
             ELSE /\ UNCHANGED <<authenticated, is_admin, screen, upload_section,
                                 zapier_section, phase>>
    /\ AuthUnchanged

\* Logout is pressed
Logout ==
    /\ phase = "run"
    /\ enable_auth
    /\ screen = "app"
    /\ Len(auth_log) < MaxAuthEvents
    /\ auth_log' = Append(auth_log, AuthEvent("logout", "", ""))
    /\ authenticated' = AfterLogout.authenticated
    /\ is_admin' = AfterLogout.is_admin
    /\ LeavePage
    /\ AuthUnchanged

\* the admin key form of the sidebar is submitted
UnlockAdmin ==
    /\ phase = "run"
    /\ enable_auth
    /\ screen = "app"
    /\ authenticated = "true"
    /\ is_admin = "false"
    /\ Len(auth_log) < MaxAuthEvents
    /\ \E admin_key_input \in Entries :
          /\ auth_log' = Append(auth_log, AuthEvent("admin", "", admin_key_input))
          /\ IF SecretMatches(admin_key_input)
             THEN /\ is_admin' = "true"
                  /\ LeavePage
             ELSE /\ MainApp(is_admin)
                  /\ UNCHANGED <<is_admin, phase>>
    /\ UNCHANGED authenticated
    /\ AuthUnchanged

NextAuth == PlainRun \/ SubmitLogin \/ Logout \/ UnlockAdmin

SpecAuth == InitAuth /\ [][NextAuth]_vars

(***************************************************************************)
(* SpecNotify: the notification send, one step per request it makes to     *)
(* the bucket and to the webhook, over a bounded number of clicks.         *)
(***************************************************************************)
MaxSends == 2

SecretKeys == {"gcp", "gcs_bucket_name", "zapier_webhook_url"}

\* the keys of target_charts_to_upload, in the dictionary's order
target_charts_to_upload ==
    <<"gross_revenue", "cost", "roi", "orders_(sku)", "cost_per_order">>

\* f"{metric_col.replace('_(sku)', '')}_url"
UrlKey(metric_col) ==
    CASE metric_col = "gross_revenue" -> "gross_revenue_url"
      [] metric_col = "cost" -> "cost_url"
      [] metric_col = "roi" -> "roi_url"
      [] metric_col = "orders_(sku)" -> "orders_url"
      [] metric_col = "cost_per_order" -> "cost_per_order_url"

\* the columns of zapier_chart_data_agg: the two group keys and the five
\* metrics selected from the groupby
ChartDataColumns ==
    {"report_date", "campaign_name"}
        \cup {target_charts_to_upload[i] : i \in DOMAIN target_charts_to_upload}

\* generate_specific_metric_chart: None when the metric is not a column
GenerateSpecificMetricChart(metric_col) ==
    IF metric_col \in ChartDataColumns THEN "chart" ELSE "None"

\* an entry of send_log; urls is the chart_images of a posted payload
SendEvent(op, what, ok) == [op |-> op, what |-> what, ok |-> ok, urls |-> {}]

RECURSIVE ClicksIn(_)
ClicksIn(log) ==
    IF log = <<>> THEN 0
    ELSE (IF Head(log).op = "click" THEN 1 ELSE 0) + ClicksIn(Tail(log))

Failure(message) == [success |-> FALSE, error |-> message]

PostResultAlwaysSuccess(ok) == [success |-> TRUE, error |-> "none"]

\* the try block around requests.post and raise_for_status
PostResult(ok) ==
    IF ok THEN [success |-> TRUE, error |-> "none"]
    ELSE Failure("Failed to send data to Zapier")

InitNotify ==
    /\ IdleReconcile
    /\ impl = "none"
    /\ rerun_df = EmptyFrame
    /\ all_data = <<>>
    /\ IdleIngest
    /\ IdleSession
    /\ IdleAnalysis
    /\ IdleRanking
    /\ IdlePeriod
    /\ workbook = NoWorkbook
    /\ IdleAuth
    /\ IdleFilter
    /\ secrets \in SUBSET SecretKeys
    /\ send_pc = "idle"
    /\ chart_i = 1
    /\ excel_report_url = "none"
    /\ zapier_chart_urls = {}
    /\ result = NoResult
    /\ send_log = <<>>
    /\ phase = "send"

NotifyUnchanged ==
    UNCHANGED <<recVars, impl, rerun_df, all_data, ingVars, sesVars, anaVars, rankVars,
                periodVars, workbook, authVars, filterVars, secrets, phase>>

\* a return of prepare_and_upload_data
ReturnResult(r, events) ==
    /\ result' = r
    /\ send_pc' = "done"
    /\ send_log' = send_log \o events \o <<SendEvent("return", "", r.success)>>

\* the button of send_weekly_email_data: the secrets are looked at first,
\* and prepare_and_upload_data starts only when all three are there
ClickSend ==
    /\ phase = "send"
    /\ send_pc \in {"idle", "done"}
    /\ ClicksIn(send_log) < MaxSends
    /\ LET complete == SecretKeys \subseteq secrets
       IN /\ send_log' = Append(send_log, SendEvent("click", "", complete))
          /\ send_pc' = IF complete THEN "excel" ELSE "done"
    /\ chart_i' = 1
    /\ excel_report_url' = "none"
    /\ zapier_chart_urls' = {}
    /\ result' = NoResult
    /\ NotifyUnchanged

\* upload_excel_to_gcs returns the public URL, or None after an exception
UploadExcel ==
    /\ send_pc = "excel"
    /\ \E ok \in BOOLEAN :
          LET ev == SendEvent("excel", "", ok)
          IN /\ excel_report_url' = IF ok THEN "url" ELSE "None"
             /\ IF ok
                THEN /\ send_pc' = "chart"
                     /\ send_log' = Append(send_log, ev)
                     /\ result' = result
                ELSE ReturnResult(Failure("Failed to upload Excel report"), <<ev>>)
    /\ UNCHANGED <<chart_i, zapier_chart_urls>>
    /\ NotifyUnchanged

\* one turn of the loop over target_charts_to_upload: the chart is generated
\* and, when there is one, uploaded; upload_chart_to_gcs returns None after
\* an exception
UploadChart ==
    /\ send_pc = "chart"
    /\ LET metric_col == target_charts_to_upload[chart_i]
           chart_obj == GenerateSpecificMetricChart(metric_col)
           gen == SendEvent("generate", metric_col, chart_obj # "None")
       IN IF chart_obj = "None"
          THEN /\ ReturnResult(Failure("Failed to generate chart"), <<gen>>)
               /\ UNCHANGED <<chart_i, zapier_chart_urls>>
          ELSE \E ok \in BOOLEAN :
                  LET up == SendEvent("chart", metric_col, ok)
                  IN IF ok
                     THEN /\ zapier_chart_urls' = zapier_chart_urls \cup {UrlKey(metric_col)}
                          /\ send_log' = send_log \o <<gen, up>>
                          /\ result' = result
                          /\ IF chart_i < Len(target_charts_to_upload)
                             THEN /\ chart_i' = chart_i + 1
                                  /\ send_pc' = "chart"
                             ELSE /\ chart_i' = chart_i
                                  /\ send_pc' = "post"
                     ELSE /\ ReturnResult(Failure("Failed to upload chart"), <<gen, up>>)
                          /\ UNCHANGED <<chart_i, zapier_chart_urls>>
    /\ UNCHANGED excel_report_url
    /\ NotifyUnchanged

\* after the loop: the payload is posted when the Excel URL is there, and the
\* outcome of the request is what the function returns
PostWebhook ==
    /\ send_pc = "post"
    /\ IF excel_report_url = "url"
       THEN \E ok \in BOOLEAN :
               ReturnResult(PostResult(ok),
                            <<[SendEvent("post", "", ok) EXCEPT !.urls = zapier_chart_urls]>>)
       ELSE ReturnResult(Failure("Chart generation or upload failed."), <<>>)
    /\ UNCHANGED <<chart_i, excel_report_url, zapier_chart_urls>>
    /\ NotifyUnchanged

NextNotify == ClickSend \/ UploadExcel \/ UploadChart \/ PostWebhook

SpecNotify == InitNotify /\ [][NextNotify]_vars

(***************************************************************************)
(* SpecFilter: filter_data on small frames and sidebar selections.         *)
(***************************************************************************)
MaxFilterRows == 2

FilterDays == 1..2

FilterCampaigns == {"A_x", "B_y"}

FilterAccounts == {"A", "B"}

\* the columns the filters look at and may not find
FilterKeys == {"campaign_name", "account_name"}

FilterRows ==
    [report_date : FilterDays, campaign_name : FilterCampaigns,
     account_name : FilterAccounts]

\* frames with report_date and any of the two filter columns; the value of a
\* missing column is left out of a row by blanking it
FilterFrames ==
    { [columns |-> {"report_date"} \cup present,
       rows |-> [i \in 1..Len(r) |->
                   [r[i] EXCEPT !.campaign_name =
                                    IF "campaign_name" \in present THEN @ ELSE "",
                                !.account_name =
                                    IF "account_name" \in present THEN @ ELSE ""]]] :
        present \in SUBSET FilterKeys, r \in BoundedSeq(FilterRows, MaxFilterRows) }

\* filter_options: the date range and the two multiselects
FilterOptions ==
    { o \in [start_date : FilterDays, end_date : FilterDays,
             campaigns : SUBSET FilterCampaigns,
             accounts : SUBSET (FilterAccounts \cup {"All Accounts"})] :
        o.start_date <= o.end_date }

DateMaskExclusiveEnd(df, date_range) ==
    [i \in 1..Len(df.rows) |->
        /\ df.rows[i].report_date >= date_range[1]
        /\ df.rows[i].report_date < date_range[2]]

\* (data['report_date'] >= start) & (data['report_date'] <= end)
DateMask(df, date_range) ==
    [i \in 1..Len(df.rows) |->
        /\ df.rows[i].report_date >= date_range[1]
        /\ df.rows[i].report_date <= date_range[2]]

\* data[col].isin(values)
IsIn(df, col, values) ==
    [i \in 1..Len(df.rows) |->
        IF col = "campaign_name" THEN df.rows[i].campaign_name \in values
        ELSE df.rows[i].account_name \in values]

\* base_mask &= m
MaskAnd(mask, m) == [i \in DOMAIN mask |-> mask[i] /\ m[i]]

RECURSIVE Masked(_, _)
\* data[base_mask]
Masked(rows, mask) ==
    IF rows = <<>> THEN <<>>
    ELSE (IF Head(mask) THEN <<Head(rows)>> ELSE <<>>)
             \o Masked(Tail(rows), Tail(mask))

filter_data(df, opts) ==
    IF IsEmpty(df) THEN [status |-> "ok", columns |-> {}, rows |-> <<>>]
    ELSE LET m1 == DateMask(df, <<opts.start_date, opts.end_date>>)
             m2 == IF "campaign_name" \in df.columns
                   THEN MaskAnd(m1, IsIn(df, "campaign_name", opts.campaigns))
                   ELSE m1
             m3 == IF "account_name" \in df.columns
                   THEN IF opts.accounts # {}
                        THEN IF "All Accounts" \notin opts.accounts
                             THEN MaskAnd(m2, IsIn(df, "account_name", opts.accounts))
                             ELSE m2
                        ELSE MaskAnd(m2, IsIn(df, "account_name", {}))
                   ELSE m2
         IN [status |-> "ok", columns |-> df.columns, rows |-> Masked(df.rows, m3)]

InitFilter ==
    /\ IdleReconcile
    /\ impl = "none"
    /\ rerun_df = EmptyFrame
    /\ all_data = <<>>
    /\ IdleIngest
    /\ IdleSession
    /\ campaign_name = NaN
    /\ account = "none"
    /\ data \in FilterFrames
    /\ export_granularity = "Weekly"
    /\ summary_df = NoGroups
    /\ chart_data = NoGroups
    /\ kpis = NoKpis
    /\ IdleRanking
    /\ IdlePeriod
    /\ workbook = NoWorkbook
    /\ IdleAuth
    /\ IdleNotify
    /\ selection \in FilterOptions
    /\ filtered_data = NoFrame
    /\ phase = "filter"

\* render_dashboard's call of filter_data
FilterData ==
    /\ phase = "filter"
    /\ filtered_data' = filter_data(data, selection)
    /\ phase' = "filtered"
    /\ UNCHANGED <<recVars, impl, rerun_df, all_data, ingVars, sesVars, anaVars, rankVars,
                   periodVars, workbook, authVars, notifyVars, selection>>

NextFilter == FilterData

SpecFilter == InitFilter /\ [][NextFilter]_vars

(***************************************************************************)
(* SpecExport: the export section on records that lack grouping columns.   *)
(***************************************************************************)
\* the grouping columns a frame may lack
MissingKeys == SUBSET {"account_name", "campaign_name"}

\* a record of a frame without some grouping columns
LackingColumns(r, missing) ==
    [r EXCEPT !.account_name = IF "account_name" \in missing THEN "" ELSE @,
              !.campaign_name = IF "campaign_name" \in missing THEN NaN ELSE @]

ExportFrames ==
    { [columns |-> (KeyColumns \ missing) \cup MetricColumns,
       rows |-> [i \in 1..Len(r) |-> LackingColumns(r[i], missing)]] :
        missing \in MissingKeys, r \in BoundedSeq(MetricRows, MaxRecords) }

InitExport ==
    /\ IdleReconcile
    /\ impl = "none"
    /\ rerun_df = EmptyFrame
    /\ all_data = <<>>
    /\ IdleIngest
    /\ IdleSession
    /\ campaign_name = NaN
    /\ account = "none"
    /\ data \in ExportFrames
    /\ export_granularity = "Weekly"
    /\ summary_df = NoGroups
    /\ chart_data = NoGroups
    /\ kpis = NoKpis
    /\ IdleView
    /\ phase = "view"

NextExport == ExportSection

SpecExport == InitExport /\ [][NextExport]_vars

(***************************************************************************)
(* SpecPeriod: the period the export section assigns to a report_date,     *)
(* over dates from December 2023 into April 2024.                          *)
(***************************************************************************)
DaysBack == 40

DaysAhead == 100

ReportDayRange == (1 - DaysBack)..DaysAhead

InitPeriod ==
    /\ IdleReconcile
    /\ impl = "none"
    /\ rerun_df = EmptyFrame
    /\ all_data = <<>>
    /\ IdleIngest
    /\ IdleSession
    /\ IdleAnalysis
    /\ IdleRanking
    /\ workbook = NoWorkbook
    /\ IdleNotify
    /\ IdleFilter
    /\ IdleAuth
    /\ report_day \in ReportDayRange
    /\ period = 1
    /\ phase = "assign"

\* the export section assigns the period for the picked grouping
AssignPeriod ==
    /\ phase = "assign"
    /\ \E g \in Granularities :
          /\ export_granularity' = g
          /\ period' = PeriodOf(g, report_day)
    /\ phase' = "assigned"
    /\ UNCHANGED <<recVars, impl, rerun_df, all_data, ingVars, sesVars, campaign_name,
                   account, data, summary_df, chart_data, kpis, sendVars, rankVars, report_day,
                   workbook, authVars>>

NextPeriod == AssignPeriod

SpecPeriod == InitPeriod /\ [][NextPeriod]_vars

(***************************************************************************)
(* SpecRanking: the campaign ranking of the notification                   *)
(* (get_campaign_data) and of the dashboard (render_top_campaigns).        *)
(* sort_values is called without kind, so pandas sorts with numpy's        *)
(* quicksort, which does not promise any order among equal values: every   *)
(* descending order of the groups is a possible outcome.                   *)
(***************************************************************************)
MaxCampaigns == 4

NameLetters == <<"a", "b", "c", "d", "e", "f">>

\* the campaign names of the ranked records; groupby emits its groups in the
\* sorted order of the names, which is the order of the letters
CampaignNamed(i) == <<NameLetters[i]>>

GroupIndex(name) == CHOOSE i \in 1..Len(NameLetters) : CampaignNamed(i) = name

RankRow(i, orders, rev, cost) ==
    [account_name |-> "Other Accounts", campaign_name |-> CampaignNamed(i),
     report_date |-> 1, cost |-> Num(cost), gross_revenue |-> Num(rev),
     orders |-> Num(orders), roi |-> NullNum, cost_per_order |-> NullNum]

\* the records of campaign i: none, one, another one, or two that sum to the
\* orders of the second choice and the revenue of the first
Contribution(i, k) ==
    CASE k = 0 -> <<>>
      [] k = 1 -> <<RankRow(i, 3, 150, 100)>>
      [] k = 2 -> <<RankRow(i, 5, 100, 0)>>
      [] OTHER -> <<RankRow(i, 3, 150, 100), RankRow(i, 2, 0, 100)>>

\* the numeric columns a ranked frame may have
RankColumnVariants ==
    { {"orders", "gross_revenue", "cost"}, {"gross_revenue", "cost"},
      {"orders", "gross_revenue"}, {"cost"} }

\* filtered_data for the ranking: the records of the last campaign first
RankFrames ==
    { [columns |-> KeyColumns \cup m,
       rows |-> LET r == Flatten([j \in 1..MaxCampaigns |->
                                   Contribution(MaxCampaigns + 1 - j,
                                                k[MaxCampaigns + 1 - j])])
                IN [i \in 1..Len(r) |-> ProjectRow(r[i], m)]] :
        m \in RankColumnVariants, k \in [1..MaxCampaigns -> 0..3] }
    \cup
    { [columns |-> (KeyColumns \ {"campaign_name"}) \cup {"orders", "gross_revenue", "cost"},
       rows |-> [i \in 1..n |-> [RankRow(1, 3, 150, 100) EXCEPT !.campaign_name = NaN]]] :
        n \in 1..2 }

\* rank_column: orders when the frame has it, else gross_revenue
RankColumn(df) == IF "orders" \in df.columns THEN "orders" ELSE "gross_revenue"

\* groupby('campaign_name')[metrics_to_aggregate].sum().reset_index(): one row
\* for each campaign, in the order of the names
GroupedByCampaign(df) ==
    LET all == 1..Len(df.rows)
        present == { i \in 1..Len(NameLetters) :
                       \E r \in all : df.rows[r].campaign_name = CampaignNamed(i) }
        members(i) == { r \in all : df.rows[r].campaign_name = CampaignNamed(i) }
        row(i) == LET sums == GroupSums(df, members(i))
                  IN [campaign_name |-> CampaignNamed(i), orders |-> sums["orders"],
                      gross_revenue |-> sums["gross_revenue"], cost |-> sums["cost"],
                      roi |-> Zero]
        emitted == [i \in 1..Len(NameLetters) |-> IF i \in present THEN <<row(i)>> ELSE <<>>]
    IN Flatten(emitted)

RECURSIVE Orderings(_)
Orderings(S) ==
    IF S = {} THEN {<<>>}
    ELSE UNION { { <<x>> \o p : p \in Orderings(S \ {x}) } : x \in S }

\* a plausible slip: ascending
SortValuesAscending(summary, col) ==
    { [i \in 1..Len(summary) |-> summary[p[i]]] :
        p \in { q \in Orderings(1..Len(summary)) :
                  \A i \in 1..(Len(summary) - 1) :
                      summary[q[i]][col] <= summary[q[i + 1]][col] } }

\* sort_values(col, ascending=False): the orders the sort may give
SortValues(summary, col) ==
    { [i \in 1..Len(summary) |-> summary[p[i]]] :
        p \in { q \in Orderings(1..Len(summary)) :
                  \A i \in 1..(Len(summary) - 1) :
                      summary[q[i]][col] >= summary[q[i + 1]][col] } }

\* replace([inf, -inf], 0)
ReplaceInfZero(x) == IF x.kind = "inf" THEN Zero ELSE x

\* roi of the campaign summaries when there are revenue and cost columns
WithRoi(df, summary) ==
    IF {"gross_revenue", "cost"} \subseteq df.columns
    THEN [i \in 1..Len(summary) |->
            [summary[i] EXCEPT !.roi =
                FillNa(ReplaceInfZero(Divide(summary[i].gross_revenue, summary[i].cost)))]]
    ELSE summary

\* head(3)
Head3(summary) == SubSeq(summary, 1, IF Len(summary) < 3 THEN Len(summary) ELSE 3)

\* iloc[3:]
After3(summary) == IF Len(summary) > 3 THEN SubSeq(summary, 4, Len(summary)) ELSE <<>>

\* the grouping or the sort raises KeyError: no campaign_name, or neither
\* orders nor gross_revenue
RankingKeyError(df) ==
    \/ "campaign_name" \notin df.columns
    \/ RankColumn(df) \notin df.columns

\* the campaign summaries the ranking may work on
CampaignSummaries(df) ==
    { WithRoi(df, sorted) : sorted \in SortValues(GroupedByCampaign(df), RankColumn(df)) }

InitRanking ==
    /\ IdleReconcile
    /\ impl = "none"
    /\ rerun_df = EmptyFrame
    /\ all_data = <<>>
    /\ IdleIngest
    /\ IdleSession
    /\ campaign_name = NaN
    /\ account = "none"
    /\ data \in RankFrames
    /\ export_granularity = "Weekly"
    /\ summary_df = NoGroups
    /\ chart_data = NoGroups
    /\ kpis = NoKpis
    /\ IdlePeriod
    /\ workbook = NoWorkbook
    /\ IdleNotify
    /\ IdleFilter
    /\ IdleAuth
    /\ ranking = "none"
    /\ top_campaigns_data = <<>>
    /\ remaining_campaigns_data = <<>>
    /\ phase = "rank"

\* get_campaign_data
GetCampaignData ==
    /\ phase = "rank"
    /\ ranking = "none"
    /\ IF IsEmpty(data)
       THEN /\ ranking' = "ok"
            /\ UNCHANGED <<top_campaigns_data, remaining_campaigns_data>>
       ELSE IF RankingKeyError(data)
       THEN /\ ranking' = "KeyError"
            /\ UNCHANGED <<top_campaigns_data, remaining_campaigns_data>>
       ELSE \E campaign_summary \in CampaignSummaries(data) :
              /\ ranking' = "ok"
              /\ top_campaigns_data' = Head3(campaign_summary)
              /\ remaining_campaigns_data' = After3(campaign_summary)
    /\ UNCHANGED <<recVars, impl, rerun_df, all_data, ingVars, sesVars, anaVars,
                   sendVars, periodVars, workbook, authVars, phase>>

\* render_top_campaigns
RenderTopCampaigns ==
    /\ phase = "rank"
    /\ ranking = "none"
    /\ ~IsEmpty(data)
    /\ IF {"orders", "gross_revenue"} \cap data.columns = {}
       THEN /\ ranking' = "hidden"
            /\ UNCHANGED <<top_campaigns_data, remaining_campaigns_data>>
       ELSE IF RankingKeyError(data)
       THEN /\ ranking' = "KeyError"
            /\ UNCHANGED <<top_campaigns_data, remaining_campaigns_data>>
       ELSE \E all_campaign_summary \in CampaignSummaries(data) :
              /\ ranking' = "ok"
              /\ top_campaigns_data' = Head3(all_campaign_summary)
              /\ remaining_campaigns_data' = After3(all_campaign_summary)
    /\ UNCHANGED <<recVars, impl, rerun_df, all_data, ingVars, sesVars, anaVars,
                   sendVars, periodVars, workbook, authVars, phase>>

NextRanking == GetCampaignData \/ RenderTopCampaigns

SpecRanking == InitRanking /\ [][NextRanking]_vars

(***************************************************************************)
(* Spec: one admin session of the app against the worksheet.  A script run *)
(* is one step; the user acts between runs.                                *)
(***************************************************************************)
MaxUploaderFiles == 1

MaxSheetRows == 4

\* a worksheet line: the header line or a data line
HeaderLine(cols) ==
    [kind |-> "header", columns |-> cols,
     cells |-> [campaign_id |-> NaN, campaign_name |-> NaN, account_name |-> NaN,
                report_date |-> NaN, cost |-> NullNum, upload_date |-> NaN]]

DataLine(r) == [kind |-> "data", columns |-> {}, cells |-> r]

\* sh.get_all_records(): the first line gives the keys, the other lines the
\* records; pd.DataFrame of it
get_all_records(sh) ==
    IF Len(sh) <= 1 THEN EmptyFrame
    ELSE [columns |-> sh[1].columns,
          rows |-> [i \in 1..(Len(sh) - 1) |-> sh[i + 1].cells]]

\* a plausible slip: the header line goes into every payload
rows_to_uploadAlwaysHeader(df, is_first_upload) ==
    <<HeaderLine(df.columns)>> \o [i \in 1..Len(df.rows) |-> DataLine(Serialize(df).rows[i])]

\* the upload payload: the header line only on a first upload, then the rows
\* of final_df as strings
rows_to_upload(df, is_first_upload) ==
    (IF is_first_upload THEN <<HeaderLine(df.columns)>> ELSE <<>>)
        \o [i \in 1..Len(df.rows) |-> DataLine(Serialize(df).rows[i])]

\* the for loop of the ingestion over all files of the uploader
RECURSIVE IngestAll(_)
IngestAll(files) ==
    IF files = <<>> THEN <<>>
    ELSE (IF IngestFile(Head(files)).result = "appended"
          THEN <<IngestFile(Head(files)).df>> ELSE <<>>) \o IngestAll(Tail(files))

\* workbooks the admin uploads in a session: for a date, a workbook with a row
\* of campaign A, of campaign B, or of both; and one workbook without a date
\* in its name
SessionRows == { <<<<"A">>>>, <<<<"B">>>>, <<<<"A">>, <<"B">>>> }

SessionFiles ==
    { [name_date |-> DateCell(d), columns |-> {"campaign_name", "campaign_id", "cost"},
       rows |-> [i \in 1..Len(cs) |-> RawRow(cs[i], TRUE, Num(20))]] :
        cs \in SessionRows, d \in Dates }
    \cup
    { [name_date |-> NaN, columns |-> {"campaign_name", "campaign_id", "cost"},
       rows |-> <<RawRow(<<"A">>, TRUE, Num(20))>>] }

\* st.radio(label, options) without index: the first option unless the page
\* holds a value for the widget
RadioValue == IF radio_state = "absent" THEN "Skip duplicates" ELSE radio_state

Init ==
    /\ IdleReconcile
    /\ impl \in {"component", "app"}
    /\ rerun_df = EmptyFrame
    /\ all_data = <<>>
    /\ IdleIngest
    /\ IdleSession
    /\ IdleAnalysis
    /\ IdleView
    /\ phase = "idle"

\* a run in which the upload button was not pressed: the upload code does not
\* run, so it has no locals, writes nothing, and the radio is not rendered
FreshRun ==
    /\ existing' = EmptyFrame
    /\ combined_df' = EmptyFrame
    /\ overwrite' = "not asked"
    /\ status' = "none"
    /\ path' = "none"
    /\ final_df' = EmptyFrame
    /\ duplicate_rows' = <<>>
    /\ last_write' = NoWrite
    /\ radio_shown' = FALSE
    /\ radio_state' = "absent"
    /\ user_picked' = FALSE

\* the admin puts files into the uploader: the script reruns and ingests them;
\* the upload button is on the page when all_data is not empty
SelectFiles ==
    /\ phase = "idle"
    /\ uploader = <<>>
    /\ \E files \in BoundedSeq(SessionFiles, MaxUploaderFiles) :
          /\ files # <<>>
          /\ uploader' = files
          /\ all_data' = IngestAll(files)
    /\ FreshRun
    /\ UNCHANGED <<viewVars, anaVars, impl, rerun_df, ingVars, sheet, clear_uploader, phase>>

\* the admin presses "Upload All to Google Sheets": the run ingests the files
\* again, reconciles, writes with sh.update, sets clear_uploader and asks for
\* a rerun; an exception ends the run before the write
ClickUpload ==
    /\ phase \in {"idle", "picked"}
    /\ all_data # <<>>
    /\ LET batch == ConcatAll(all_data)
           sheet_df == get_all_records(sheet)
           r == Reconcile(impl, sheet_df, batch, RadioValue)
           existing_records == sheet
           is_first_upload == Len(existing_records) = 0
           payload == rows_to_upload(r.final_df, is_first_upload)
       IN /\ Len(sheet) + Len(payload) <= MaxSheetRows
          /\ existing' = sheet_df
          /\ combined_df' = batch
          /\ overwrite' = IF r.radio_rendered THEN RadioValue ELSE "not asked"
          /\ status' = r.status
          /\ path' = r.path
          /\ final_df' = r.final_df
          /\ duplicate_rows' = r.duplicate_rows
          /\ radio_shown' = r.radio_rendered
          /\ radio_state' = IF r.radio_rendered THEN RadioValue ELSE "absent"
          /\ user_picked' = (r.radio_rendered /\ user_picked)
          /\ IF r.status = "ok"
             THEN /\ sheet' = sheet \o payload
                  /\ last_write' = [conflicts |-> r.duplicate_rows # <<>>,
                                    picked |-> r.radio_rendered /\ user_picked,
                                    rows |-> Len(r.final_df.rows),
                                    policy |-> IF r.radio_rendered THEN RadioValue
                                               ELSE "not asked"]
                  /\ clear_uploader' = TRUE
                  /\ phase' = "rerun"
             ELSE /\ UNCHANGED <<sheet, last_write, clear_uploader>>
                  /\ phase' = "idle"
    /\ UNCHANGED <<viewVars, anaVars, impl, rerun_df, all_data, ingVars, uploader>>

PopUploaderKeepsFiles(files) == files

\* st.session_state.pop("uploader", None): the widget created after it
\* starts without files
PopUploader(files) == <<>>

\* the run after st.rerun(): app.py:121-123 finds clear_uploader set, removes
\* the uploader's files and resets the flag before the uploader widget is
\* created.  render_file_uploader only sets the flag; whether the page that
\* hosts it consumes the flag as app.py does is not fixed by the component, so
\* both outcomes are possible there.  The locals of the run before are gone.
Rerun ==
    /\ phase = "rerun"
    /\ \E consumed \in (IF impl = "app" THEN {clear_uploader} ELSE {clear_uploader, FALSE}) :
          /\ IF consumed
             THEN uploader' = PopUploader(uploader) /\ clear_uploader' = FALSE
             ELSE UNCHANGED <<uploader, clear_uploader>>
          /\ all_data' = IngestAll(uploader')
    /\ FreshRun
    /\ phase' = "idle"
    /\ UNCHANGED <<viewVars, anaVars, impl, rerun_df, ingVars, sheet>>

\* the admin picks an option of the radio left on the page by a run that
\* ended in an exception: the page sends the value and asks for a rerun
PickRadio ==
    /\ phase = "idle"
    /\ radio_shown
    /\ \E choice \in RadioOptions : radio_state' = choice
    /\ user_picked' = TRUE
    /\ phase' = "picked"
    /\ UNCHANGED <<viewVars, anaVars, recVars, impl, rerun_df, all_data, ingVars, sheet, uploader,
                   clear_uploader, radio_shown, last_write>>

\* that rerun finishes: the button was not pressed, the upload code does not
\* run, the radio is not rendered again and its value is dropped
RunAfterPick ==
    /\ phase = "picked"
    /\ all_data' = IngestAll(uploader)
    /\ FreshRun
    /\ phase' = "idle"
    /\ UNCHANGED <<viewVars, anaVars, impl, rerun_df, ingVars, sheet, uploader, clear_uploader>>

Next == SelectFiles \/ ClickUpload \/ Rerun \/ PickRadio \/ RunAfterPick

Spec == Init /\ [][Next]_vars

(***************************************************************************)
(* The records the claims speak of: the existing records with parsed       *)
(* dates, the incoming records with their account label, and both with     *)
(* campaign_id trimmed when the composite key is used.                     *)
(***************************************************************************)
ExistingDated == WithDatetime(existing).rows

IncomingLabelled == WithAccountName(combined_df).rows

ExistingRecords == WithNormalizedId(WithDatetime(existing)).rows

IncomingRecords == WithNormalizedId(WithAccountName(combined_df)).rows

BothCarryId == "campaign_id" \in existing.columns /\ "campaign_id" \in combined_df.columns

ExistingUsable == ~IsEmpty(existing) /\ "report_date" \in existing.columns

ExistingDatedOrEmpty == IsEmpty(existing) \/ "report_date" \in existing.columns

ConflictKeys == KeysOf(ExistingRecords) \cap KeysOf(IncomingRecords)

Reconciled == phase \in {"reconciled", "reapplied"}

KeyIn(keys, r) == Key(r) \in keys

WithoutKeys(rows, keys) == LET keep(r) == ~KeyIn(keys, r) IN SelectSeq(rows, keep)

(***************************************************************************)
(* Claims about the reconciliation (checked under SpecReconcile).          *)
(***************************************************************************)

\* C1: when both sides carry campaign_id, no two records of the merged set
\* share a (campaign_id, report_date) key, under either policy.
C1_NoDuplicateKeys ==
    (Reconciled /\ status = "ok" /\ BothCarryId)
        => \A i, j \in 1..Len(final_df.rows) :
              i # j => Key(final_df.rows[i]) # Key(final_df.rows[j])

\* C2: under the skip policy with at least one conflict, the merged set is the
\* existing records followed by the incoming records whose key matches no
\* existing record.
C2_SkipKeepsExisting ==
    (Reconciled /\ overwrite = "Skip duplicates")
        => /\ status = "ok"
           /\ final_df.rows = ExistingRecords \o WithoutKeys(IncomingRecords, ConflictKeys)

\* C3: under the overwrite policy with at least one conflict, the merged set is
\* the existing records whose key is in no conflict followed by all incoming
\* records (records taken with campaign_id trimmed).
C3_OverwriteMerged ==
    (Reconciled /\ overwrite = "Overwrite duplicates")
        => /\ status = "ok"
           /\ ConflictKeys # {}
           /\ final_df.rows = WithoutKeys(ExistingRecords, ConflictKeys) \o IncomingRecords
           /\ \A i \in 1..Len(final_df.rows) :
                 final_df.rows[i].cost = Num(10) => Key(final_df.rows[i]) \notin ConflictKeys

C3_Witness ==
    /\ phase = "reconciled"
    /\ overwrite = "Overwrite duplicates"
    /\ \E i, j \in 1..Len(ExistingRecords) :
          /\ Key(ExistingRecords[i]) \in ConflictKeys
          /\ Key(ExistingRecords[j]) \notin ConflictKeys
    /\ Len(final_df.rows) = Len(combined_df.rows) + 1

\* C5: when the existing set is empty or has no report_date column, the merged
\* set is the incoming batch, same records in the same order, and there is no
\* conflict set and no policy question.
C5_FirstUpload ==
    (Reconciled /\ (IsEmpty(existing) \/ "report_date" \notin existing.columns))
        => /\ status = "ok"
           /\ final_df.rows = IncomingLabelled
           /\ duplicate_rows = <<>>
           /\ overwrite = "not asked"

C5_Witness ==
    /\ phase = "reconciled"
    /\ existing.rows # <<>>
    /\ "report_date" \notin existing.columns
    /\ Len(combined_df.rows) = 2
    /\ final_df.rows = IncomingLabelled

C7_NeverRaises ==
    Reconciled => status = "ok"

\* C8: when campaign_id is missing on a side (the existing set being empty or
\* carrying report_date), the merged set is every existing record followed by
\* the incoming records whose report_date occurs in no existing record; no
\* existing record is removed or changed and no policy is asked.
C8_DateFallback ==
    (Reconciled /\ ExistingDatedOrEmpty /\ ~BothCarryId)
        => /\ status = "ok"
           /\ path \in {"date_fallback", "first_upload"}
           /\ (path = "date_fallback") = ExistingUsable
           /\ overwrite = "not asked"
           /\ LET dates == { ExistingDated[k].report_date : k \in 1..Len(ExistingDated) }
                  fresh(r) == r.report_date \notin dates
              IN final_df.rows = ExistingDated \o SelectSeq(IncomingLabelled, fresh)

C8_Witness ==
    /\ phase = "reconciled"
    /\ path = "date_fallback"
    /\ Len(existing.rows) = 1
    /\ Len(combined_df.rows) = 2
    /\ Len(final_df.rows) = 2

\* C9: when both sides carry campaign_id and no incoming key matches an
\* existing key (the existing set being empty or carrying report_date), the
\* merged set is all existing records followed by all incoming records, in
\* their original order, none added, dropped or changed.
C9_NoConflictConcat ==
    (Reconciled /\ ExistingDatedOrEmpty /\ BothCarryId /\ ConflictKeys = {})
        => /\ status = "ok"
           /\ overwrite = "not asked"
           /\ final_df.rows = ExistingRecords \o IncomingRecords

C9_Witness ==
    /\ phase = "reconciled"
    /\ path = "no_conflict"
    /\ Len(existing.rows) = 2
    /\ Len(combined_df.rows) = 2
    /\ existing.rows[1] # existing.rows[2]
    /\ combined_df.rows[1] # combined_df.rows[2]

\* C11: every record of the merged set, from the existing snapshot or from the
\* incoming batch, has a report_date that is a calendar date; no record with
\* a missing date takes part in the reconciliation.
C11_MergedDatesValid ==
    (Reconciled /\ status = "ok")
        => /\ \A i \in 1..Len(final_df.rows) : final_df.rows[i].report_date \in Dates
           /\ ExistingUsable
                 => \A i \in 1..Len(ExistingDated) : ExistingDated[i].report_date # NaT

\* a campaign_id cell as a plain trimmed string: without the leading marker
PlainId(cell) ==
    LET t == StrStrip(cell)
    IN IF t # <<>> /\ Head(t) = "'" THEN Tail(t) ELSE t

\* C13: campaign_id values are compared as plain trimmed strings, without the
\* marker: an incoming record with raw identifier X and an existing record
\* with identifier X on the same report_date are detected as a conflict.
C13_PlainIdConflict ==
    (Reconciled /\ ExistingUsable /\ BothCarryId)
        => \A i \in 1..Len(ExistingDated) : \A j \in 1..Len(IncomingLabelled) :
              ( /\ PlainId(ExistingDated[i].campaign_id) = PlainId(IncomingLabelled[j].campaign_id)
                /\ ExistingDated[i].report_date = IncomingLabelled[j].report_date )
                  => \E k \in 1..Len(duplicate_rows) :
                        /\ PlainId(duplicate_rows[k].campaign_id)
                              = PlainId(IncomingLabelled[j].campaign_id)
                        /\ duplicate_rows[k].report_date = IncomingLabelled[j].report_date

(***************************************************************************)
(* Claims about the ingestion (checked under SpecIngest).                  *)
(***************************************************************************)
IngestedRows(i) == all_data[i].rows

HasPositiveCost(r) == ~r.cost.null /\ r.cost.v > 0

\* C10 as claimed: every ingested record has cost > 0, for every uploaded
\* file (rows with zero, negative or missing cost are dropped).
C10_AllIngestedPositive ==
    \A i \in 1..Len(all_data) :
        \A j \in 1..Len(IngestedRows(i)) : HasPositiveCost(IngestedRows(i)[j])

\* C10 amended: every record ingested from a file that has a cost column has
\* cost > 0; a file without a cost column is ingested whole, each record with
\* a missing cost.
C10_PositiveWhereCostColumn ==
    /\ \A i \in 1..Len(all_data) :
          \A j \in 1..Len(IngestedRows(i)) :
              IF "cost" \in all_data[i].columns
              THEN HasPositiveCost(IngestedRows(i)[j])
              ELSE IngestedRows(i)[j].cost.null
    /\ (notice = "appended" /\ "cost" \notin all_data[Len(all_data)].columns)
          => dropped = 0

C10_Witness ==
    /\ notice = "appended"
    /\ "cost" \in all_data[Len(all_data)].columns
    /\ dropped = 1
    /\ Len(IngestedRows(Len(all_data))) = 1

(***************************************************************************)
(* Claims about one submission (checked under SpecLoop).                   *)
(***************************************************************************)
NameHasDate(f) == f.name_date # NaN

\* the files of the submission whose name holds a calendar date
DatedFiles == LET ok(f) == NameHasDate(f) /\ IsCalendarDate(f.name_date)
              IN SelectSeq(uploader, ok)

\* what a file brings: campaign and day of each of its rows with spend
Brought(f) ==
    LET spend(r) == ~r.cost.null /\ r.cost.v > 0
        kept == SelectSeq(f.rows, spend)
    IN [i \in 1..Len(kept) |-> <<kept[i].campaign_name, f.name_date[3]>>]

InBatch(df) == [i \in 1..Len(df.rows) |-> <<df.rows[i].campaign_name, df.rows[i].report_date>>]

\* C12: a file whose name has no YYYY-MM-DD substring brings no record into
\* the batch, and every other file of the submission is still processed: the
\* batch holds, in order, the records of each file named with a calendar date.
C12_UndatedFileSkipped ==
    phase = "loaded"
        => /\ Len(all_data) = Len(DatedFiles)
           /\ \A k \in 1..Len(all_data) : InBatch(all_data[k]) = Brought(DatedFiles[k])

C12_Witness ==
    /\ phase = "loaded"
    /\ Len(uploader) = 3
    /\ NameHasDate(uploader[1])
    /\ ~NameHasDate(uploader[2])
    /\ NameHasDate(uploader[3])
    /\ Len(all_data) = 2
    /\ all_data[1].rows # all_data[2].rows

(***************************************************************************)
(* Claims about the session (checked under Spec).                          *)
(***************************************************************************)

\* C4: rows of an upload that has conflicting keys are written to the
\* worksheet only after the user has chosen the policy.
C4_WriteAfterChoice ==
    (last_write.conflicts /\ last_write.rows > 0) => last_write.picked

\* the store holds one header line, as its first line
OneHeaderFirst ==
    sheet # <<>> => /\ sheet[1].kind = "header"
                    /\ \A i \in 2..Len(sheet) : sheet[i].kind = "data"

\* a write puts a header line first if and only if the store held no line
HeaderIffEmpty ==
    sheet' # sheet => ((sheet = <<>>) <=> (sheet'[Len(sheet) + 1].kind = "header"))

\* C14: over any sequence of uploads a header line is written if and only if
\* the store held no line at the time of the write, so the store always holds
\* exactly one header line, as its first line.
C14_HeaderOnce == []OneHeaderFirst /\ [][HeaderIffEmpty]_vars

C14_Witness ==
    /\ phase = "rerun"
    /\ last_write.rows >= 1
    /\ Len(sheet) > last_write.rows + 1
    /\ sheet[1].kind = "header"

(***************************************************************************)
(* Claims about the classifier (checked under SpecClassify).               *)
(***************************************************************************)
SameLetter(a, b) ==
    \/ a = b
    \/ \E i \in 1..Len(UpperLetters) : {a, b} = {UpperLetters[i], LowerLetters[i]}

\* pat occurs in text, letters compared without regard to case
OccursIgnoringCase(text, pat) ==
    \E i \in 1..Len(text) :
        /\ i + Len(pat) - 1 <= Len(text)
        /\ \A k \in 1..Len(pat) : SameLetter(text[i + k - 1], pat[k])

\* the ordered rule list
AccountRules ==
    << [pattern |-> GranitestonePattern, label |-> "Granitestone"],
       [pattern |-> BellAndHowellPattern, label |-> "Bell+Howell"] >>

FirstMatchingLabel(name) ==
    LET hits == { i \in 1..Len(AccountRules) : OccursIgnoringCase(name, AccountRules[i].pattern) }
    IN IF name = NaN \/ hits = {} THEN "Other Accounts"
       ELSE AccountRules[CHOOSE i \in hits : \A j \in hits : i <= j].label

\* C15: the classifier returns the label of the first rule whose pattern
\* occurs in the name, case-insensitively: "Granitestone", else "Bell+Howell",
\* else "Other Accounts"; a null name gives "Other Accounts"; a name with both
\* patterns gives "Granitestone".
C15_FirstRuleWins ==
    phase = "classified" => account = FirstMatchingLabel(campaign_name)

C15_Witness ==
    /\ phase = "classified"
    /\ campaign_name # NaN
    /\ OccursIgnoringCase(campaign_name, GranitestonePattern)
    /\ OccursIgnoringCase(campaign_name, BellAndHowellPattern)
    /\ campaign_name # StrLower(campaign_name)
    /\ account = "Granitestone"

(***************************************************************************)
(* Claims about the loaded records (checked under SpecLoad).               *)
(***************************************************************************)
Available == phase \in {"loaded", "labelled"}

\* C16 as claimed: every record available after loading or ingestion has an
\* account_name that is one of the three labels.
C16_EveryRecordLabelled ==
    Available => \A i \in 1..Len(data.rows) : data.rows[i].account_name \in AccountLabels

(***************************************************************************)
(* Claims about the aggregations (checked under SpecAnalysis).             *)
(***************************************************************************)
\* the records of data that fall in a group of an output
RecordsOf(out, grp) ==
    { i \in 1..Len(data.rows) :
        /\ data.rows[i].campaign_name = grp.campaign_name
        /\ IF out.kind = "export"
           THEN /\ data.rows[i].account_name = grp.account_name
                /\ PeriodOf(export_granularity, data.rows[i].report_date)
                      = ToDatetime(grp.date)
           ELSE data.rows[i].report_date = ToDatetime(grp.date) }

Total(col, members) == GroupSum(data, col, members)

\* x is n / d to 2 decimals: a number of hundredths at most half a hundredth
\* away from n / d
Nearest2(x, n, d) ==
    /\ x.kind = "num"
    /\ x.d = 100
    /\ LET diff == 100 * n - x.n * d
       IN 2 * (IF diff < 0 THEN -diff ELSE diff) <= d

IsZero(x) == x.kind = "num" /\ x.n = 0

SameNumber(x, n, d) == x.kind = "num" /\ x.n * d = n * x.d

\* C17: in the export summary every group with a non-zero sum of cost has
\* roi = sum(gross_revenue) / sum(cost) to 2 decimals, and every group with a
\* non-zero sum of orders has cost_per_order = sum(cost) / sum(orders) to 2
\* decimals, whatever roi and cost_per_order its records carried.
C17_SumThenRatio ==
    summary_df.kind = "export" =>
        \A grp \in summary_df.groups :
            LET m == RecordsOf(summary_df, grp)
            IN /\ m # {}
               /\ Total("cost", m) # 0
                     => Nearest2(grp.roi, Total("gross_revenue", m), Total("cost", m))
               /\ Total("orders", m) # 0
                     => Nearest2(grp.cost_per_order, Total("cost", m), Total("orders", m))

\* the claim's example: (cost 100, revenue 150) and (cost 200, revenue 250) in
\* one group give roi 1.33 and cost_per_order 300 / 7 = 42.86
C17_Witness ==
    /\ summary_df.kind = "export"
    /\ Len(data.rows) = 2
    /\ data.rows[1].roi = Num(150)
    /\ data.rows[2].roi = Num(125)
    /\ \E grp \in summary_df.groups :
          /\ grp.cost = 300
          /\ grp.gross_revenue = 400
          /\ grp.roi = Ratio(133, 100)
          /\ grp.cost_per_order = Ratio(4286, 100)

\* C18: the export summary and the KPI figures never hold an infinite or
\* undefined roi or cost_per_order; a group whose sum of cost is zero (or has
\* no cost column) has roi 0, a group whose sum of orders is zero (or has no
\* orders column) has cost_per_order 0, and avg_roi is 0 when the total cost is
\* zero.
C18_SafeDivision ==
    /\ summary_df.kind = "export" =>
          \A grp \in summary_df.groups :
              LET m == RecordsOf(summary_df, grp)
              IN /\ grp.roi.kind = "num"
                 /\ grp.cost_per_order.kind = "num"
                 /\ Total("cost", m) = 0 => IsZero(grp.roi)
                 /\ Total("orders", m) = 0 => IsZero(grp.cost_per_order)
    /\ kpis.kind = "kpis" =>
          /\ kpis.avg_roi.kind = "num"
          /\ kpis.avg_roi.d # 0
          /\ kpis.avg_cost_per_order.kind = "num"
          /\ kpis.avg_cost_per_order.d # 0
          /\ Total("cost", 1..Len(data.rows)) = 0 => IsZero(kpis.avg_roi)

\* a group with revenue and no cost, and one with cost and no orders, next to
\* a group that has orders; KPI figures of records that hold no cost_per_order
C18_Witness ==
    /\ summary_df.kind = "export"
    /\ \E grp \in summary_df.groups :
          grp.cost = 0 /\ grp.gross_revenue > 0 /\ IsZero(grp.roi)
    /\ \E g1, g2 \in summary_df.groups :
          /\ g1.orders = 0 /\ g1.cost > 0 /\ IsZero(g1.cost_per_order)
          /\ g2.orders > 0
    /\ kpis.kind = "kpis"
    /\ "cost_per_order" \in data.columns
    /\ IsZero(kpis.avg_cost_per_order)

\* C19: in every aggregated output (export summary, chart series of the
\* dashboard, chart data of the notification) the roi and the cost_per_order
\* of a group are the ratio of the group's summed numerator and denominator
\* (0 when the denominator is zero), exactly or to 2 decimals, where the
\* records have the numerator and the denominator columns.
C19_RatiosRecomputed ==
    \A out \in {summary_df, chart_data} :
        \A grp \in out.groups :
            LET m == RecordsOf(out, grp)
                rev == Total("gross_revenue", m)
                cost == Total("cost", m)
                orders == Total("orders", m)
            IN /\ {"roi"} \subseteq out.columns
                     /\ {"gross_revenue", "cost"} \subseteq data.columns =>
                     IF cost = 0 THEN IsZero(grp.roi)
                     ELSE \/ SameNumber(grp.roi, rev, cost)
                          \/ Nearest2(grp.roi, rev, cost)
               /\ {"cost_per_order"} \subseteq out.columns
                     /\ {"cost", "orders"} \subseteq data.columns =>
                     IF orders = 0 THEN IsZero(grp.cost_per_order)
                     ELSE \/ SameNumber(grp.cost_per_order, cost, orders)
                          \/ Nearest2(grp.cost_per_order, cost, orders)

\* C20: avg_roi is total revenue over total cost when the total cost is
\* positive and 0 otherwise; avg_cost_per_order is the arithmetic mean of the
\* cost_per_order values that are present, 0 when the column is absent or
\* holds no value.
C20_KpiAverages ==
    kpis.kind = "kpis" =>
        LET all == 1..Len(data.rows)
            present == { i \in all : ~data.rows[i].cost_per_order.null }
        IN /\ IF Total("cost", all) > 0
              THEN SameNumber(kpis.avg_roi, Total("gross_revenue", all), Total("cost", all))
              ELSE IsZero(kpis.avg_roi)
           /\ IF "cost_per_order" \in data.columns /\ present # {}
              THEN SameNumber(kpis.avg_cost_per_order,
                              Total("cost_per_order", present), 100 * Cardinality(present))
              ELSE IsZero(kpis.avg_cost_per_order)

\* two records with roi 1.50 and 0.75: avg_roi is 300 / 300, not 1.125; one of
\* them has no cost_per_order and the mean is the other's
C20_Witness ==
    /\ kpis.kind = "kpis"
    /\ Len(data.rows) = 2
    /\ data.rows[1].roi = Num(150)
    /\ data.rows[2].roi = Num(75)
    /\ data.rows[1].cost_per_order = Num(3333)
    /\ data.rows[2].cost_per_order = NullNum
    /\ kpis.avg_roi = Ratio(300, 300)
    /\ kpis.avg_cost_per_order = Ratio(3333, 100)

(***************************************************************************)
(* Claims about the campaign ranking (checked under SpecRanking).          *)
(***************************************************************************)
Ranked == top_campaigns_data \o remaining_campaigns_data

\* the summed ranking metric of a campaign, from the records
RankTotal(name) ==
    Total(RankColumn(data),
          { i \in 1..Len(data.rows) : data.rows[i].campaign_name = name })

CampaignsOf(df) == { df.rows[i].campaign_name : i \in 1..Len(df.rows) }

\* C21: the ranking holds each campaign of the records exactly once, with its
\* summed ranking metric, in descending order of it; top is the first
\* min(3, number of campaigns) entries and rest the remainder, so every top
\* entry ranks >= every rest entry; an empty record set gives two empty lists.
C21_TopAndRest ==
    ranking = "ok" =>
        /\ Len(Ranked) = Cardinality(CampaignsOf(data))
        /\ { Ranked[i].campaign_name : i \in 1..Len(Ranked) } = CampaignsOf(data)
        /\ Len(top_campaigns_data)
              = (IF Cardinality(CampaignsOf(data)) < 3
                 THEN Cardinality(CampaignsOf(data)) ELSE 3)
        /\ \A i \in 1..Len(Ranked) :
              Ranked[i][RankColumn(data)] = RankTotal(Ranked[i].campaign_name)
        /\ \A i, j \in 1..Len(Ranked) :
              i < j => RankTotal(Ranked[i].campaign_name) >= RankTotal(Ranked[j].campaign_name)
        /\ \A i \in 1..Len(top_campaigns_data), j \in 1..Len(remaining_campaigns_data) :
              RankTotal(top_campaigns_data[i].campaign_name)
                >= RankTotal(remaining_campaigns_data[j].campaign_name)
        /\ IsEmpty(data) => top_campaigns_data = <<>> /\ remaining_campaigns_data = <<>>

\* four campaigns with different totals among them: three in top, one in rest
C21_Witness ==
    /\ ranking = "ok"
    /\ Len(top_campaigns_data) = 3
    /\ Len(remaining_campaigns_data) = 1
    /\ top_campaigns_data[1].orders = 5
    /\ remaining_campaigns_data[1].orders = 3

\* C22: campaigns whose summed ranking metric is equal appear in the ranking
\* in the order in which the grouping emitted them.
C22_StableOnTies ==
    ranking = "ok" =>
        \A i, j \in 1..Len(Ranked) :
            (i < j /\ RankTotal(Ranked[i].campaign_name) = RankTotal(Ranked[j].campaign_name))
                => GroupIndex(Ranked[i].campaign_name) < GroupIndex(Ranked[j].campaign_name)

(***************************************************************************)
(* Claims about the aggregation period (checked under SpecPeriod).         *)
(***************************************************************************)
\* day of the week of a calendar date, 0 = Sunday .. 6 = Saturday
\* (Sakamoto's method)
DayOfWeek(c) ==
    LET t == <<0, 3, 2, 5, 0, 3, 5, 1, 4, 6, 2, 4>>
        y == IF c.month < 3 THEN c.year - 1 ELSE c.year
    IN (y + (y \div 4) - (y \div 100) + (y \div 400) + t[c.month] + c.day) % 7

\* C23: the period of a record is the report_date itself for Daily; for Weekly
\* a Monday with period <= report_date < period + 7 days; for Monthly the
\* first day of report_date's calendar month.
C23_PeriodOfRecord ==
    phase = "assigned" =>
        /\ export_granularity = "Daily" => period = report_day
        /\ export_granularity = "Weekly" =>
              /\ DayOfWeek(Civil(period)) = 1
              /\ period <= report_day
              /\ report_day < period + 7
        /\ export_granularity = "Monthly" =>
              /\ Civil(period).day = 1
              /\ Civil(period).month = Civil(report_day).month
              /\ Civil(period).year = Civil(report_day).year
              /\ period <= report_day

\* Sunday 2024-03-03 (day 63) belongs to the week of Monday 2024-02-26
C23_Witness ==
    /\ phase = "assigned"
    /\ export_granularity = "Weekly"
    /\ Civil(report_day) = [year |-> 2024, month |-> 3, day |-> 3]
    /\ Civil(period) = [year |-> 2024, month |-> 2, day |-> 26]

(***************************************************************************)
(* Claims about the export without grouping columns (under SpecExport).    *)
(***************************************************************************)
\* the grouping keys of a record that the frame has, with its period
AvailableKey(i) ==
    <<IF "account_name" \in data.columns THEN data.rows[i].account_name ELSE "",
      IF "campaign_name" \in data.columns THEN data.rows[i].campaign_name ELSE NaN,
      PeriodOf(export_granularity, data.rows[i].report_date)>>

\* C24: whichever of account_name and campaign_name the records lack, the
\* export completes without an error and its summary has one group for each
\* combination of the available grouping keys and the period.
C24_ExportWithoutKeys ==
    workbook # NoWorkbook =>
        /\ workbook.status = "ok"
        /\ summary_df.kind = "export"
        /\ summary_df.columns \cap {"account_name", "campaign_name"}
              = data.columns \cap {"account_name", "campaign_name"}
        /\ { <<grp.account_name, grp.campaign_name, ToDatetime(grp.date)>> :
                grp \in summary_df.groups }
              = { AvailableKey(i) : i \in 1..Len(data.rows) }
        /\ Cardinality(summary_df.groups)
              = Cardinality({ AvailableKey(i) : i \in 1..Len(data.rows) })

(***************************************************************************)
(* Claims about the authentication flow (checked under SpecAuth).          *)
(***************************************************************************)
\* the events since the last Logout
RECURSIVE SinceLogout(_)
SinceLogout(log) ==
    IF log = <<>> THEN <<>>
    ELSE IF log[Len(log)].kind = "logout" THEN <<>>
    ELSE Append(SinceLogout(SubSeq(log, 1, Len(log) - 1)), log[Len(log)])

PasswordGiven ==
    \E i \in 1..Len(SinceLogout(auth_log)) :
        /\ SinceLogout(auth_log)[i].kind = "login"
        /\ SinceLogout(auth_log)[i].pw = "correct"

AdminKeyGiven ==
    \E i \in 1..Len(SinceLogout(auth_log)) :
        /\ SinceLogout(auth_log)[i].kind \in {"login", "admin"}
        /\ SinceLogout(auth_log)[i].key = "correct"

\* C26: with authentication enabled, the upload section and the notification
\* section are on the page only while is_admin is true; is_admin is true only
\* after the correct password and the correct admin key have been submitted;
\* authenticated is set only after the correct password, and the main
\* application is on the page only in an authenticated session.
C26_AdminGate ==
    enable_auth =>
        /\ (upload_section \/ zapier_section) => is_admin = "true" /\ authenticated = "true"
        /\ is_admin = "true" => PasswordGiven /\ AdminKeyGiven
        /\ authenticated = "true" => PasswordGiven
        /\ screen = "app" => authenticated = "true"

\* a viewer who logged in without the key and unlocked the admin features
\* later has the upload section
C26_Witness ==
    /\ enable_auth
    /\ upload_section
    /\ Len(auth_log) = 3
    /\ auth_log[1] = AuthEvent("login", "wrong", "correct")
    /\ auth_log[2] = AuthEvent("login", "correct", "")
    /\ auth_log[3] = AuthEvent("admin", "", "correct")

LogoutPressed ==
    /\ Len(auth_log') = Len(auth_log) + 1
    /\ auth_log'[Len(auth_log')].kind = "logout"

CorrectPasswordSubmitted ==
    /\ Len(auth_log') = Len(auth_log) + 1
    /\ auth_log'[Len(auth_log')].kind = "login"
    /\ auth_log'[Len(auth_log')].pw = "correct"

\* C27: with authentication enabled, Logout removes authenticated and
\* is_admin; while authenticated is not in the session the page is the login
\* form or nothing, never the dashboard or the upload section; and
\* authenticated comes back only by a submission of the correct password.
C27_LogoutLocks ==
    /\ [][enable_auth /\ LogoutPressed
            => authenticated' = "absent" /\ is_admin' = "absent"]_vars
    /\ []((enable_auth /\ authenticated = "absent")
            => screen \in {"none", "login"} /\ ~upload_section /\ ~zapier_section)
    /\ [][(enable_auth /\ authenticated = "absent" /\ authenticated' = "true")
            => CorrectPasswordSubmitted]_vars

\* after an admin session was logged out the login form is on the page
C27_Witness ==
    /\ enable_auth
    /\ Len(auth_log) = 2
    /\ auth_log[1] = AuthEvent("login", "correct", "correct")
    /\ auth_log[2].kind = "logout"
    /\ authenticated = "absent"
    /\ is_admin = "absent"
    /\ screen = "login"

(***************************************************************************)
(* C28                                                                     *)
(***************************************************************************)
RECURSIVE ChartEventsFrom(_)
\* the log of a loop over the charts from position i on in which every
\* generation and every upload succeeds
ChartEventsFrom(i) ==
    IF i > Len(target_charts_to_upload) THEN <<>>
    ELSE <<SendEvent("generate", target_charts_to_upload[i], TRUE),
           SendEvent("chart", target_charts_to_upload[i], TRUE)>> \o ChartEventsFrom(i + 1)

UploadsInOrder == <<SendEvent("click", "", TRUE), SendEvent("excel", "", TRUE)>>
                      \o ChartEventsFrom(1)

AllChartUrls ==
    {"gross_revenue_url", "cost_url", "roi_url", "orders_url", "cost_per_order_url"}

\* C28: the webhook is posted only directly after, within the same click,
\* the Excel upload and then the uploads of the gross revenue, cost, ROI,
\* orders and cost per order charts have all succeeded, and the payload then
\* holds the five chart URLs; a failed Excel upload, chart generation or chart
\* upload is directly followed by a return of failure, with no post; and a
\* return of success directly follows a webhook request that succeeded.
C28_PostAfterUploads ==
    /\ \A i \in DOMAIN send_log :
          LET e == send_log[i]
              n == Len(UploadsInOrder)
          IN /\ e.op = "post" =>
                   /\ i > n
                   /\ SubSeq(send_log, i - n, i - 1) = UploadsInOrder
                   /\ e.urls = AllChartUrls
             /\ (e.op \in {"excel", "generate", "chart"} /\ ~e.ok) =>
                   /\ i < Len(send_log)
                   /\ send_log[i + 1] = SendEvent("return", "", FALSE)
             /\ (e.op = "return" /\ e.ok) =>
                   /\ i > 1
                   /\ send_log[i - 1].op = "post"
                   /\ send_log[i - 1].ok
    /\ result.success =>
          /\ send_log # <<>>
          /\ send_log[Len(send_log)] = SendEvent("return", "", TRUE)

\* a send that failed at a chart upload, followed by a send that got through
\* to the webhook and reported success
C28_Witness ==
    /\ result.success
    /\ \E i \in DOMAIN send_log : send_log[i].op = "chart" /\ ~send_log[i].ok
    /\ \E i \in DOMAIN send_log : send_log[i].op = "post" /\ send_log[i].ok

(***************************************************************************)
(* C30                                                                     *)
(***************************************************************************)
InDateRange(r) ==
    r.report_date >= selection.start_date /\ r.report_date <= selection.end_date

\* the record has a campaign_name and it is among the selected campaigns
CampaignSelected(r) ==
    "campaign_name" \in data.columns /\ r.campaign_name \in selection.campaigns

\* the record has an account_name and it is among the selected accounts, or
\* "All Accounts" is selected
AccountSelected(r) ==
    /\ "account_name" \in data.columns
    /\ r.account_name \in selection.accounts \/ "All Accounts" \in selection.accounts

WantedRecord(r) == InDateRange(r) /\ CampaignSelected(r) /\ AccountSelected(r)

\* C30 as stated: filter_data returns exactly the records with report_date in
\* the range (bounds included), campaign_name among the selected campaigns and
\* account_name among the selected accounts (any account under "All
\* Accounts"); an empty campaign or account selection gives an empty result;
\* the input is not modified.
C30_FilterExact ==
    /\ [](phase = "filtered" =>
            /\ filtered_data.rows = SelectSeq(data.rows, WantedRecord)
            /\ (selection.campaigns = {} \/ selection.accounts = {})
                  => filtered_data.rows = <<>>)
    /\ [][data' = data]_vars

\* a filter applies when the data has its column
WantedWhereFiltered(r) ==
    /\ InDateRange(r)
    /\ "campaign_name" \in data.columns => r.campaign_name \in selection.campaigns
    /\ "account_name" \in data.columns =>
          r.account_name \in selection.accounts \/ "All Accounts" \in selection.accounts

\* C30 amended: filter_data returns exactly the records with report_date in
\* the range (bounds included) that pass the campaign filter and the account
\* filter, each filter applying only when the data has its column; an empty
\* selection empties the result when the data has that filter's column; the
\* input is not modified.
C30_FilterExactWhereColumns ==
    /\ [](phase = "filtered" =>
            /\ filtered_data.rows = SelectSeq(data.rows, WantedWhereFiltered)
            /\ (selection.campaigns = {} /\ "campaign_name" \in data.columns)
                  => filtered_data.rows = <<>>
            /\ (selection.accounts = {} /\ "account_name" \in data.columns)
                  => filtered_data.rows = <<>>)
    /\ [][data' = data]_vars

\* two records with both columns, one kept and one left out by the end of the
\* date range
C30_Witness ==
    /\ phase = "filtered"
    /\ FilterKeys \subseteq data.columns
    /\ Len(data.rows) = 2
    /\ Len(filtered_data.rows) = 1
    /\ data.rows[2].report_date > selection.end_date
    /\ filtered_data.rows[1].report_date = selection.end_date
    /\ "All Accounts" \notin selection.accounts

(***************************************************************************)
(* C25                                                                     *)
(***************************************************************************)
\* how many data lines of the worksheet sh equal the line
Occurrences(line, sh) ==
    Cardinality({ i \in DOMAIN sh : sh[i].kind = "data" /\ sh[i] = line })

\* C25: over any sequence of uploads, an upload writes only rows that were
\* not stored before: every data row of the worksheet before a step occurs in
\* the worksheet after it exactly as many times as before.
C25_OnlyNewRowsWritten ==
    [][\A i \in DOMAIN sheet :
          sheet[i].kind = "data" =>
              Occurrences(sheet[i], sheet') = Occurrences(sheet[i], sheet)]_vars

(***************************************************************************)
(* C29                                                                     *)
(***************************************************************************)
\* C29: a store write sets clear_uploader and asks for a rerun; the run that
\* follows writes nothing, and where it is a run of app.py it begins by
\* removing the uploader's files and resetting the flag, so that the upload
\* code finds no files; hence one click of the upload button causes at most
\* one store write and the rerun does not submit the same files again.
C29_UploaderClearedAfterWrite ==
    /\ [][sheet' # sheet =>
             /\ phase # "rerun"
             /\ clear_uploader'
             /\ phase' = "rerun"]_vars
    /\ [][phase = "rerun" =>
             /\ clear_uploader
             /\ sheet' = sheet
             /\ last_write' = NoWrite
             /\ impl = "app" =>
                   /\ uploader' = <<>>
                   /\ clear_uploader' = FALSE
                   /\ all_data' = <<>>]_vars

\* app.py after an upload and its rerun: rows are stored, the uploader is
\* empty again and the flag is back to false
C29_Witness ==
    /\ impl = "app"
    /\ phase = "idle"
    /\ Len(sheet) > 1
    /\ uploader = <<>>
    /\ all_data = <<>>
    /\ clear_uploader = FALSE

====
